---- MODULE Spec2Model ----
(***************************************************************************)
(* A model of traceon's storage and formatting layer (src/src/traceon.rs): *)
(* the per-span JsonStorage, the field visitor, the three Layer callbacks  *)
(* on_new_span / on_record / on_event, Traceon::serialize and the writer   *)
(* guarded by a mutex.                                                     *)
(*                                                                         *)
(* Strings (&str, String, Vec<u8>) are sequences of one-character strings, *)
(* so that concatenation, escaping and casing are computed character by    *)
(* character as the code computes them.                                    *)
(***************************************************************************)
EXTENDS Integers, Sequences, FiniteSets, TLC

(***************************************************************************)
(* Bounds of the model.                                                    *)
(***************************************************************************)
\* spans created in one behaviour of Spec
MaxSpans == 2
\* spans created in one behaviour of SpecStore
MaxTreeSpans == 3
\* spans created in one behaviour of SpecFmt
MaxFmtSpans == 1
\* emitter threads of SpecWriter
MaxThreads == 2
\* a size of the part of a buffer one Write::write may take
ChunkPart == 3
\* on_record notifications in one behaviour
MaxRecords == 1
\* events written to the sink in one behaviour
MaxEvents == 1
\* events dropped on a serialization error in one behaviour
MaxDropped == 1
\* fields carried by one span!/record/event! call site
MaxFields == 1
\* events the emitter threads of the writer specification send
MaxEmits == 3
\* the characters of the keys the casing functions are called on
MaxKeyChars == 3
\* calls of on and try_on
MaxInstalls == 2
\* spans created in one behaviour of SpecShared
MaxSharedSpans == 2

(***************************************************************************)
(* Characters and strings.                                                 *)
(***************************************************************************)
Lowers == <<"a","b","c","d","e","f","g","h","i","j","k","l","m",
            "n","o","p","q","r","s","t","u","v","w","x","y","z">>
Uppers == <<"A","B","C","D","E","F","G","H","I","J","K","L","M",
            "N","O","P","Q","R","S","T","U","V","W","X","Y","Z">>

Digits == <<"0","1","2","3","4","5","6","7","8","9">>

\* two characters outside ASCII, a lowercase and an uppercase letter (e and E
\* with an acute accent), each two bytes long in UTF-8
NonAsciiLower == "U+00E9"
NonAsciiUpper == "U+00C9"

\* char::len_utf8
LenUtf8(c) == IF c \in {NonAsciiLower, NonAsciiUpper} THEN 2 ELSE 1

IndexIn(seq, c) == CHOOSE i \in 1..Len(seq) : seq[i] = c

IsAsciiUpper(c) == \E i \in 1..Len(Uppers) : Uppers[i] = c
IsAsciiLower(c) == \E i \in 1..Len(Lowers) : Lowers[i] = c

\* char::to_ascii_lowercase
CharToAsciiLowercase(c) == IF IsAsciiUpper(c) THEN Lowers[IndexIn(Uppers, c)] ELSE c
\* char::to_ascii_uppercase
CharToAsciiUppercase(c) == IF IsAsciiLower(c) THEN Uppers[IndexIn(Lowers, c)] ELSE c

\* str::to_ascii_lowercase
ToAsciiLowercase(s) == [i \in 1..Len(s) |-> CharToAsciiLowercase(s[i])]

\* str::starts_with
StartsWith(s, p) == Len(s) >= Len(p) /\ SubSeq(s, 1, Len(p)) = p

\* the string literals of the code
LitSpanLower == <<"s","p","a","n">>
LitSpanPascal == <<"S","p","a","n">>
LitMessage == <<"m","e","s","s","a","g","e">>
LitLogDot == <<"l","o","g",".">>
LitRawIdent == <<"r","#">>
LitEmpty == <<>>

(***************************************************************************)
(* serde_json::Value, as far as the layer builds it: Value::from(&str) and *)
(* Value::from(String) give String, Value::from(i64 | u64) give Number,    *)
(* Value::from(f64) gives Number for a finite value (variant Float here,   *)
(* the payload in tenths) and Null otherwise, Value::from(bool) gives      *)
(* Bool.  Every value has the three fields t (the variant), s (a String's  *)
(* text) and n (a Number's or Bool's payload), the unused ones at a fixed  *)
(* default.                                                                *)
(***************************************************************************)
ValueFromStr(s) == [t |-> "String", s |-> s, n |-> 0]
ValueFromInt(n) == [t |-> "Number", s |-> <<>>, n |-> n]
\* a bool's payload is 1 for true and 0 for false
ValueFromBool(b) == [t |-> "Bool", s |-> <<>>, n |-> b]
ValueNull == [t |-> "Null", s |-> <<>>, n |-> 0]
\* an f64 is its value in tenths (tenths) unless it is not finite (nan):
\* Number::from_f64(f).map_or(Value::Null, Value::Number)
F64(tenths) == [nan |-> FALSE, tenths |-> tenths]
F64NaN == [nan |-> TRUE, tenths |-> 0]
ValueFromF64(f) == IF f.nan THEN ValueNull ELSE [t |-> "Float", s |-> <<>>, n |-> f.tenths]

\* Value::as_str().unwrap_or("")
AsStrOrEmpty(v) == IF v.t = "String" THEN v.s ELSE LitEmpty

(***************************************************************************)
(* The configuration enums.                                                *)
(***************************************************************************)
SpanFormatNone == [tag |-> "None", chars |-> <<>>]
SpanFormatJoin(chars) == [tag |-> "Join", chars |-> chars]
SpanFormatOverwrite == [tag |-> "Overwrite", chars |-> <<>>]

JoinFieldsOverwrite == [tag |-> "Overwrite", chars |-> <<>>, fields |-> {}]
JoinFieldsAll(chars) == [tag |-> "All", chars |-> chars, fields |-> {}]
JoinFieldsSome(chars, fields) == [tag |-> "Some", chars |-> chars, fields |-> fields]

(***************************************************************************)
(* JsonStorage: the HashMap `values` is a function from the keys present   *)
(* to their values.                                                        *)
(***************************************************************************)
EmptyMap == [k \in {} |-> ValueFromInt(0)]

\* HashMap::insert: the map afterwards
MapInsert(m, k, v) == [x \in (DOMAIN m) \cup {k} |-> IF x = k THEN v ELSE m[x]]

\* JsonStorage::new
JsonStorageNew(join_fields, span_format) ==
    [values |-> EmptyMap, join_fields |-> join_fields, span_format |-> span_format]

\* #[derive(Default)] for JsonStorage
JsonStorageDefault ==
    [values |-> EmptyMap, join_fields |-> JoinFieldsOverwrite,
     span_format |-> SpanFormatJoin(<<":",":">>)]

(***************************************************************************)
(* A field handed to the visitor by Attributes::record, Record::record or  *)
(* Event::record: its name, the record_* method its type selects (kind),   *)
(* and the value: s for record_str (the &str) and record_debug (the text   *)
(* `{:?}` formats the value to), n for the numeric and bool methods (an    *)
(* f64 in tenths, s telling a NaN).                                        *)
(***************************************************************************)
FieldStr(name, s) == [name |-> name, kind |-> "str", s |-> s, n |-> 0]
FieldI64(name, n) == [name |-> name, kind |-> "i64", s |-> <<>>, n |-> n]
FieldU64(name, n) == [name |-> name, kind |-> "u64", s |-> <<>>, n |-> n]
FieldBool(name, b) == [name |-> name, kind |-> "bool", s |-> <<>>, n |-> b]
FieldDebug(name, s) == [name |-> name, kind |-> "debug", s |-> s, n |-> 0]
FieldI128(name, n) == [name |-> name, kind |-> "i128", s |-> <<>>, n |-> n]
FieldF64(name, f) ==
    [name |-> name, kind |-> "f64", s |-> IF f.nan THEN <<"N","a","N">> ELSE <<>>,
     n |-> f.tenths]
\* the f64 of a field of kind f64
F64Of(f) == IF f.s = <<>> THEN F64(f.n) ELSE F64NaN

\* format!("{orig}{chars}{value}")
Format3(orig, chars, value) == orig \o chars \o value

\* record_i64 that leaves a stored value in place under a join policy
RecordNumberKeepingStored(st, name, n) ==
    IF name \in DOMAIN st.values /\ st.join_fields.tag # "Overwrite" THEN st
    ELSE [st EXCEPT !.values = MapInsert(st.values, name, ValueFromInt(n))]

\* impl Visit for JsonStorage: record_i64, record_u64
RecordNumber(st, name, n) ==
    [st EXCEPT !.values = MapInsert(st.values, name, ValueFromInt(n))]

\* impl Visit for JsonStorage: record_bool
RecordBool(st, name, b) ==
    [st EXCEPT !.values = MapInsert(st.values, name, ValueFromBool(b))]

\* the join of record_str, when `insert` returned Some(orig)
JoinedStr(st, name, orig, value) ==
    [st EXCEPT !.values =
        MapInsert(st.values, name,
                  ValueFromStr(Format3(AsStrOrEmpty(orig), st.join_fields.chars, value)))]

\* record_str that joins every field it finds stored, listed or not
RecordStrJoiningUnlisted(st, name, value) ==
    IF name \notin DOMAIN st.values
    THEN [st EXCEPT !.values = MapInsert(st.values, name, ValueFromStr(value))]
    ELSE IF st.join_fields.tag = "Overwrite"
         THEN [st EXCEPT !.values = MapInsert(st.values, name, ValueFromStr(value))]
         ELSE JoinedStr(st, name, st.values[name], value)

\* impl Visit for JsonStorage: record_str
RecordStr(st, name, value) ==
    LET inserted == [st EXCEPT !.values = MapInsert(st.values, name, ValueFromStr(value))]
    IN  IF name \notin DOMAIN st.values
        THEN inserted
        ELSE LET orig == st.values[name]
             IN  IF ToAsciiLowercase(name) = LitSpanLower
                 THEN IF st.span_format.tag = "Join"
                      THEN [st EXCEPT !.values =
                               MapInsert(st.values, name,
                                   ValueFromStr(Format3(AsStrOrEmpty(orig),
                                                        st.span_format.chars, value)))]
                      ELSE inserted
                 ELSE CASE st.join_fields.tag = "Overwrite" -> inserted
                        [] st.join_fields.tag = "All" -> JoinedStr(st, name, orig, value)
                        [] st.join_fields.tag = "Some" ->
                             IF name \in st.join_fields.fields
                             THEN JoinedStr(st, name, orig, value)
                             ELSE inserted

\* impl Visit for JsonStorage: record_debug
RecordDebug(st, name, text) ==
    IF StartsWith(name, LitLogDot) THEN st
    ELSE IF StartsWith(name, LitRawIdent)
         THEN [st EXCEPT !.values =
                  MapInsert(st.values, SubSeq(name, 3, Len(name)), ValueFromStr(text))]
         ELSE [st EXCEPT !.values = MapInsert(st.values, name, ValueFromStr(text))]

\* the digits of a natural number, and the text of an integer ({:?} of an i128)
RECURSIVE DebugNat(_)
DebugNat(n) ==
    IF n < 10 THEN <<Digits[n + 1]>>
    ELSE DebugNat(n \div 10) \o <<Digits[(n % 10) + 1]>>

DebugInt(n) == IF n < 0 THEN <<"-">> \o DebugNat(-n) ELSE DebugNat(n)

\* Visit::record_i128, which JsonStorage leaves at the trait's default:
\* self.record_debug(field, &value)
RecordI128(st, name, n) == RecordDebug(st, name, DebugInt(n))

\* record_f64 that stores the text of the number, as record_debug would
RecordF64AsText(st, name, f) ==
    [st EXCEPT !.values =
        MapInsert(st.values, name,
                  ValueFromStr(IF f.nan THEN <<"N","a","N">>
                               ELSE DebugInt(f.tenths \div 10) \o <<".">>
                                        \o DebugNat(f.tenths % 10)))]

\* impl Visit for JsonStorage: record_f64
RecordF64(st, name, f) ==
    [st EXCEPT !.values = MapInsert(st.values, name, ValueFromF64(f))]

\* one field visited: the dispatch of tracing's Value::record on the value's type
VisitField(st, f) ==
    CASE f.kind = "str" -> RecordStr(st, f.name, f.s)
      [] f.kind = "i64" -> RecordNumber(st, f.name, f.n)
      [] f.kind = "u64" -> RecordNumber(st, f.name, f.n)
      [] f.kind = "f64" -> RecordF64(st, f.name, F64Of(f))
      [] f.kind = "bool" -> RecordBool(st, f.name, f.n)
      [] f.kind = "i128" -> RecordI128(st, f.name, f.n)
      [] f.kind = "debug" -> RecordDebug(st, f.name, f.s)

\* Attributes::record / Record::record / Event::record: every field of the
\* call site that has a value is visited, in declaration order
RECURSIVE VisitAll(_, _)
VisitAll(st, fields) ==
    IF fields = <<>> THEN st
    ELSE VisitAll(VisitField(st, Head(fields)), Tail(fields))

(***************************************************************************)
(* The inputs the behaviours draw from.                                    *)
(***************************************************************************)
NameOuter == <<"o","u","t">>
NameInner == <<"i","n">>
\* the name of the call site that creates the id-th span: the code never looks
\* into a name, so the names are kept distinct
SpanNameOf(id) ==
    IF id = 1 THEN NameOuter ELSE IF id = 2 THEN NameInner ELSE <<"s", Digits[id + 1]>>

KeyA == <<"a">>
KeyB == <<"b">>
SepSpan == <<":",":">>
SepField == <<"|","|">>
\* the text a call site gives its string fields: that of the span it creates
\* (x1, x2, ..), or y with a quote and a line feed
TextOf(id) == <<"x", Digits[id + 1]>>
TextSpecial == <<"y", "\"", "\n">>

\* what a span! call site or Span::record may carry, with string text `text`:
\* in the behaviours of Spec
SpanFieldInputs(text) == { FieldStr(KeyA, text), FieldI64(KeyA, 2), FieldI64(KeyB, 3) }

\* and in the behaviours of SpecStore
TreeFieldInputs(text) ==
    { FieldStr(KeyA, text), FieldStr(KeyB, text), FieldI64(KeyA, 2),
      FieldStr(LitSpanLower, text) }

\* sequences over S of length 0..n
RECURSIVE SeqsUpTo(_, _)
SeqsUpTo(S, n) ==
    IF n = 0 THEN {<<>>}
    ELSE LET shorter == SeqsUpTo(S, n - 1)
         IN  shorter \cup {Append(q, x) : q \in {r \in shorter : Len(r) = n - 1}, x \in S}

SpanFieldLists(text) == SeqsUpTo(SpanFieldInputs(text), MaxFields)
TreeFieldLists(text) == SeqsUpTo(TreeFieldInputs(text), MaxFields)

(***************************************************************************)
(* The state.                                                              *)
(*   cfg      the Traceon value the layer was built from                   *)
(*   spans    the registry's spans, by Id: name, parent (0: none), the     *)
(*            JsonStorage in the span's extensions (ext.has: Some/None)    *)
(*            and the names of the fields its call site and its            *)
(*            Span::record calls have given a value (given)                *)
(*   stack    the spans the thread has entered, innermost last             *)
(*   sink     the bytes the writer has received                            *)
(*   stderr   the number of dbg! reports on the standard error             *)
(*   last     the latest event written: the event, the current span it    *)
(*            was emitted in, the entries it gave map_serializer (JSON     *)
(*            mode) and the number of events dropped before it             *)
(*   nrecords, nevents   the on_record notifications and the events        *)
(*            written so far                                               *)
(*   threads  the emitter threads of SpecWriter: where each is in          *)
(*            on_event (pc), its buffer and how much of it write_all has   *)
(*            written                                                      *)
(*   writer_lock   the thread holding the writer's mutex (0: free)         *)
(*   acquired the buffers of the threads that locked the writer, in the    *)
(*            order they locked it                                         *)
(*   nemits   the events the emitter threads have started                  *)
(*   call     the latest call of a key-casing function: the function, the  *)
(*            key, and the string returned unless the call panicked        *)
(*   global   the process-global default subscriber: whether one is set,   *)
(*            the latest on / try_on (fn), the Traceon it was called on    *)
(*            (asked), how it ended (outcome: ok, err, panic) and the      *)
(*            number of calls so far                                       *)
(*   handles  the threads of SpecShared: the spans each has entered        *)
(*            (stack, innermost last), the span the registry has created   *)
(*            for its Span::new and the layer has not been notified of     *)
(*            yet (creating, 0: none) with the call site's fields (attrs), *)
(*            and the spans it holds a Span handle of (held)               *)
(***************************************************************************)
VARIABLES cfg, spans, stack, sink, stderr, last, nrecords, nevents,
          threads, writer_lock, acquired, nemits, call, global, handles

layerVars == <<cfg, spans, stack, sink, stderr, last, nrecords, nevents>>
threadVars == <<threads, writer_lock, acquired, nemits>>
hostVars == <<call, global, handles>>
vars == <<layerVars, threadVars, hostVars>>

SpanIds == 1..Len(spans)
NoParent == 0

ExtNone == [has |-> FALSE, st |-> JsonStorageDefault]
ExtSome(st) == [has |-> TRUE, st |-> st]

\* lookup_current that returns the span created last when none is entered
LookupCurrentOrNewest ==
    IF stack = <<>> THEN Len(spans) ELSE stack[Len(stack)]

\* Context::lookup_current
LookupCurrent == IF stack = <<>> THEN NoParent ELSE stack[Len(stack)]

\* SpanKey that is "span" under every case
SpanKeyLowercase(c) == LitSpanLower

\* on_new_span: the span_key
SpanKey(c) == IF c.case = "Pascal" THEN LitSpanPascal ELSE LitSpanLower

\* InheritedStorage without the join: the span name always replaces the parent's
InheritedStorageOverwriting(c, parentExt, name) ==
    LET storage == IF parentExt.has THEN parentExt.st ELSE JsonStorageDefault
    IN  IF c.span_format.tag = "None" THEN storage
        ELSE [storage EXCEPT !.values =
                 MapInsert(storage.values, SpanKey(c), ValueFromStr(name))]

\* on_new_span, the branch of a span with a parent: the parent's storage cloned
\* (or the default one) and the span name inserted or joined
InheritedStorage(c, parentExt, name) ==
    LET storage == IF parentExt.has THEN parentExt.st ELSE JsonStorageDefault
        key == SpanKey(c)
    IN  IF c.span_format.tag = "None" THEN storage
        ELSE IF key \in DOMAIN storage.values /\ c.span_format.tag = "Join"
             THEN [storage EXCEPT !.values =
                      MapInsert(storage.values, key,
                          ValueFromStr(Format3(AsStrOrEmpty(storage.values[key]),
                                               c.span_format.chars, name)))]
             ELSE [storage EXCEPT !.values =
                      MapInsert(storage.values, key, ValueFromStr(name))]

\* on_new_span, the branch of a root span
RootStorage(c, name) ==
    LET storage == JsonStorageNew(c.join_fields, c.span_format)
    IN  IF c.span_format.tag = "None" THEN storage
        ELSE [storage EXCEPT !.values =
                 MapInsert(storage.values, SpanKey(c), ValueFromStr(name))]

\* NewSpanStorage that never clones the parent's storage
NewSpanStorageFromRoot(c, hasParent, parentExt, name, attrs) ==
    VisitAll(RootStorage(c, name), attrs)

\* on_new_span: the storage inserted into the new span's extensions
NewSpanStorage(c, hasParent, parentExt, name, attrs) ==
    VisitAll(IF hasParent THEN InheritedStorage(c, parentExt, name)
             ELSE RootStorage(c, name),
             attrs)

\* on_new_span that works on the parent's storage itself, not on a clone of it
on_new_spanWritingParent(name, parent, attrs) ==
    LET storage == NewSpanStorage(cfg, parent # NoParent,
                       IF parent # NoParent THEN spans[parent].ext ELSE ExtNone,
                       name, attrs)
        written == IF parent # NoParent
                   THEN [spans EXCEPT ![parent].ext = ExtSome(storage)] ELSE spans
    IN  /\ spans' = Append(written,
              [name |-> name, parent |-> parent,
               given |-> {attrs[i].name : i \in 1..Len(attrs)},
               ext |-> ExtSome(storage)])
        /\ UNCHANGED <<cfg, stack, sink, stderr, last, nrecords, nevents>>
        /\ UNCHANGED <<threadVars, hostVars>>

\* Layer::on_new_span for a span the registry has just created
on_new_span(name, parent, attrs) ==
    /\ spans' = Append(spans,
          [name |-> name, parent |-> parent,
           given |-> {attrs[i].name : i \in 1..Len(attrs)},
           ext |-> ExtSome(NewSpanStorage(cfg, parent # NoParent,
                              IF parent # NoParent THEN spans[parent].ext ELSE ExtNone,
                              name, attrs))])
    /\ UNCHANGED <<cfg, stack, sink, stderr, last, nrecords, nevents>>
    /\ UNCHANGED <<threadVars, hostVars>>

\* on_record that visits the values into the storage of the span's children too
on_recordIntoChildren(id, values) ==
    /\ nrecords < MaxRecords
    /\ spans[id].ext.has
    /\ spans' = [c \in DOMAIN spans |->
                    IF c = id
                    THEN [spans[c] EXCEPT
                            !.ext.st = VisitAll(@, values),
                            !.given = @ \cup {values[i].name : i \in 1..Len(values)}]
                    ELSE IF spans[c].parent = id
                         THEN [spans[c] EXCEPT !.ext.st = VisitAll(@, values)]
                         ELSE spans[c]]
    /\ nrecords' = nrecords + 1
    /\ UNCHANGED <<cfg, stack, sink, stderr, last, nevents>>
    /\ UNCHANGED <<threadVars, hostVars>>

\* on_record that visits the values into the parent's storage instead
on_recordOverParent(id, values) ==
    /\ nrecords < MaxRecords
    /\ spans[id].ext.has
    /\ spans' = [spans EXCEPT
                    ![id].ext.st = VisitAll(IF spans[id].parent # NoParent
                                            THEN spans[spans[id].parent].ext.st ELSE @,
                                            values),
                    ![id].given = @ \cup {values[i].name : i \in 1..Len(values)}]
    /\ nrecords' = nrecords + 1
    /\ UNCHANGED <<cfg, stack, sink, stderr, last, nevents>>
    /\ UNCHANGED <<threadVars, hostVars>>

\* on_record that also writes the recorded span's name to the sink
on_recordWritingSink(id, values) ==
    /\ nrecords < MaxRecords
    /\ spans[id].ext.has
    /\ spans' = [spans EXCEPT ![id].ext.st = VisitAll(@, values),
                              ![id].given = @ \cup {values[i].name : i \in 1..Len(values)}]
    /\ nrecords' = nrecords + 1
    /\ sink' = sink \o spans[id].name \o <<"\n">>
    /\ UNCHANGED <<cfg, stack, stderr, last, nevents>>
    /\ UNCHANGED <<threadVars, hostVars>>

\* Layer::on_record; the expect() on a span without storage panics, and the
\* notification then changes nothing
on_record(id, values) ==
    /\ nrecords < MaxRecords
    /\ spans[id].ext.has
    /\ spans' = [spans EXCEPT ![id].ext.st = VisitAll(@, values),
                              ![id].given = @ \cup {values[i].name : i \in 1..Len(values)}]
    /\ nrecords' = nrecords + 1
    /\ UNCHANGED <<cfg, stack, sink, stderr, last, nevents>>
    /\ UNCHANGED <<threadVars, hostVars>>

\* Enter that propagates again: the entered span's storage is rebuilt from its
\* parent's
EnterPropagating(id) ==
    /\ \A i \in 1..Len(stack) : stack[i] # id
    /\ spans[id].parent = LookupCurrent
    /\ stack' = Append(stack, id)
    /\ spans' = [spans EXCEPT
          ![id].ext = ExtSome(NewSpanStorage(cfg, spans[id].parent # NoParent,
                          IF spans[id].parent # NoParent
                          THEN spans[spans[id].parent].ext ELSE ExtNone,
                          spans[id].name, <<>>))]
    /\ UNCHANGED <<cfg, sink, stderr, last, nrecords, nevents>>
    /\ UNCHANGED <<threadVars, hostVars>>

\* the registry's enter: the span becomes the thread's current span.  The thread
\* enters spans as scoped guards do: a root span outside every span, a child
\* inside its parent
Enter(id) ==
    /\ \A i \in 1..Len(stack) : stack[i] # id
    /\ spans[id].parent = LookupCurrent
    /\ stack' = Append(stack, id)
    /\ UNCHANGED <<cfg, spans, sink, stderr, last, nrecords, nevents>>
    /\ UNCHANGED <<threadVars, hostVars>>

\* the registry's exit of the current span
Exit ==
    /\ stack # <<>>
    /\ stack' = SubSeq(stack, 1, Len(stack) - 1)
    /\ UNCHANGED <<cfg, spans, sink, stderr, last, nrecords, nevents>>
    /\ UNCHANGED <<threadVars, hostVars>>

(***************************************************************************)
(* Key casing (snake, pascal, camel).                                      *)
(***************************************************************************)
\* char::is_uppercase and char::is_lowercase, on the characters of the model
IsUppercase(ch) == IsAsciiUpper(ch) \/ ch = NonAsciiUpper
IsLowercase(ch) == IsAsciiLower(ch) \/ ch = NonAsciiLower

\* fn snake: the loop from character i on, with upper_or_underscore_last
RECURSIVE SnakeFrom(_, _, _)
SnakeFrom(key, i, upper_or_underscore_last) ==
    IF i > Len(key) THEN <<>>
    ELSE LET ch == key[i]
             pre == IF i > 1 /\ IsUppercase(ch) /\ ~upper_or_underscore_last
                    THEN <<"_">> ELSE <<>>
         IN  pre \o <<CharToAsciiLowercase(ch)>>
                 \o SnakeFrom(key, i + 1, IsUppercase(ch) \/ ch = "_")

\* fn snake
snake(key) == SnakeFrom(key, 1, FALSE)

\* pascal that capitalizes the first character only and keeps the rest
pascalOfFirstOnly(key) ==
    IF key = <<>> THEN <<>>
    ELSE <<CharToAsciiUppercase(key[1])>> \o SubSeq(key, 2, Len(key))

\* fn pascal: the loop from character i on, with capitalize and upper_last
RECURSIVE PascalFrom(_, _, _, _)
PascalFrom(key, i, capitalize, upper_last0) ==
    IF i > Len(key) THEN <<>>
    ELSE LET ch == key[i]
             upper_last == IF IsLowercase(ch) THEN FALSE ELSE upper_last0
         IN  IF ch = "_" THEN PascalFrom(key, i + 1, TRUE, FALSE)
             ELSE IF upper_last
                  THEN <<CharToAsciiLowercase(ch)>> \o PascalFrom(key, i + 1, capitalize, upper_last)
             ELSE IF capitalize
                  THEN <<CharToAsciiUppercase(ch)>> \o PascalFrom(key, i + 1, FALSE, TRUE)
             ELSE <<ch>> \o PascalFrom(key, i + 1, capitalize, FALSE)

\* fn pascal
pascal(key) == PascalFrom(key, 1, TRUE, FALSE)

\* fn camel; pascal[..1] panics when byte 1 is past the end of the string
\* (pascal is empty) or inside its first character (which is not ASCII)
CamelPanics(key) == pascal(key) = <<>> \/ LenUtf8(pascal(key)[1]) > 1
camel(key) ==
    LET p == pascal(key)
    IN  <<CharToAsciiLowercase(p[1])>> \o SubSeq(p, 2, Len(p))

\* serialize: `let key = match self.case { ... }`
CasedKey(c, key) ==
    CASE c.case = "Snake" -> snake(key)
      [] c.case = "Pascal" -> pascal(key)
      [] c.case = "Camel" -> camel(key)
      [] c.case = "None" -> key

(***************************************************************************)
(* serde_json's compact output.                                            *)
(***************************************************************************)
\* sequences concatenated
RECURSIVE Concat(_)
Concat(seqs) == IF seqs = <<>> THEN <<>> ELSE Head(seqs) \o Concat(Tail(seqs))

\* EscapeChar that writes every character as it is
EscapeCharRaw(ch) == <<ch>>

\* format_escaped_str_contents: the escape of one character
EscapeChar(ch) ==
    CASE ch = "\"" -> <<"\\", "\"">>
      [] ch = "\\" -> <<"\\", "\\">>
      [] ch = "\n" -> <<"\\", "n">>
      [] ch = "\t" -> <<"\\", "t">>
      [] ch = "\r" -> <<"\\", "r">>
      [] OTHER -> <<ch>>

\* format_escaped_str: a string between quotes
JsonString(s) == <<"\"">> \o Concat([i \in 1..Len(s) |-> EscapeChar(s[i])]) \o <<"\"">>

\* itoa: the decimal digits of an integer
RECURSIVE NatToString(_)
NatToString(n) ==
    IF n < 10 THEN <<Digits[n + 1]>>
    ELSE NatToString(n \div 10) \o <<Digits[(n % 10) + 1]>>

IntToString(n) == IF n < 0 THEN <<"-">> \o NatToString(-n) ELSE NatToString(n)

\* ryu: the shortest decimal text of a finite f64, here one of n tenths, n >= 0
FloatToString(tenths) == NatToString(tenths \div 10) \o <<".">> \o NatToString(tenths % 10)

\* impl Serialize for Value; also Value::to_string
JsonValue(v) ==
    CASE v.t = "String" -> JsonString(v.s)
      [] v.t = "Number" -> IntToString(v.n)
      [] v.t = "Float" -> FloatToString(v.n)
      [] v.t = "Null" -> <<"n","u","l","l">>
      [] v.t = "Bool" -> IF v.n = 1 THEN <<"t","r","u","e">> ELSE <<"f","a","l","s","e">>

\* SerializeMap::serialize_entry, from the second entry on a comma first
JsonEntry(e) == JsonString(e.key) \o <<":">> \o JsonValue(e.value)

RECURSIVE JsonEntries(_)
JsonEntries(entries) ==
    IF entries = <<>> THEN <<>>
    ELSE IF Len(entries) = 1 THEN JsonEntry(entries[1])
    ELSE JsonEntry(entries[1]) \o <<",">> \o JsonEntries(Tail(entries))

\* serialize_map(None) ... end(): the object in json_buffer
JsonObject(entries) == <<"{">> \o JsonEntries(entries) \o <<"}">>

Entry(key, value) == [key |-> key, value |-> value]

(***************************************************************************)
(* String helpers of the pretty output.                                    *)
(***************************************************************************)
\* the characters of the model in ascending byte order ("ESC" is 0x1b)
ByteOrder ==
    <<"\t", "\n", "\r", "ESC", " ", "\"", "#", ".">> \o Digits \o <<":">> \o Uppers
        \o <<"[", "\\", "_">> \o Lowers \o <<"{", "|", "}">>

CharCode(ch) == IndexIn(ByteOrder, ch)

\* Ord for str: a.cmp(b) = Less
RECURSIVE StrLess(_, _)
StrLess(a, b) ==
    IF b = <<>> THEN FALSE
    ELSE IF a = <<>> THEN TRUE
    ELSE IF Head(a) = Head(b) THEN StrLess(Tail(a), Tail(b))
    ELSE CharCode(Head(a)) < CharCode(Head(b))

\* str::trim_matches(ch)
RECURSIVE TrimStartMatches(_, _)
TrimStartMatches(s, ch) ==
    IF s # <<>> /\ Head(s) = ch THEN TrimStartMatches(Tail(s), ch) ELSE s

RECURSIVE TrimEndMatches(_, _)
TrimEndMatches(s, ch) ==
    IF s # <<>> /\ s[Len(s)] = ch THEN TrimEndMatches(SubSeq(s, 1, Len(s) - 1), ch) ELSE s

TrimMatches(s, ch) == TrimEndMatches(TrimStartMatches(s, ch), ch)

IsWhitespace(ch) == ch \in {" ", "\n", "\t", "\r"}

\* str::trim
RECURSIVE TrimStart(_)
TrimStart(s) == IF s # <<>> /\ IsWhitespace(Head(s)) THEN TrimStart(Tail(s)) ELSE s

RECURSIVE TrimEnd(_)
TrimEnd(s) ==
    IF s # <<>> /\ IsWhitespace(s[Len(s)]) THEN TrimEnd(SubSeq(s, 1, Len(s) - 1)) ELSE s

Trim(s) == TrimEnd(TrimStart(s))

\* str::replace(from, to): the non-overlapping matches, left to right
RECURSIVE Replace(_, _, _)
Replace(s, from, to) ==
    IF Len(s) < Len(from) THEN s
    ELSE IF SubSeq(s, 1, Len(from)) = from
         THEN to \o Replace(SubSeq(s, Len(from) + 1, Len(s)), from, to)
         ELSE <<Head(s)>> \o Replace(Tail(s), from, to)

\* pub fn clean_json_value
clean_json_value(value) ==
    Replace(Replace(TrimMatches(JsonValue(value), "\""),
                    <<"\\", "\"">>, <<"\"">>),
            <<"\\", "n">>, <<"\n", " ", " ", " ", " ">>)

\* fields.sort_by(|a, b| a.0.cmp(&b.0)): a stable sort, as insertion into a
\* sorted list after the entries that are not greater
RECURSIVE InsertSorted(_, _)
InsertSorted(sorted, f) ==
    IF sorted = <<>> THEN <<f>>
    ELSE IF StrLess(f.key, Head(sorted).key) THEN <<f>> \o sorted
    ELSE <<Head(sorted)>> \o InsertSorted(Tail(sorted), f)

RECURSIVE SortFields(_)
SortFields(fields) ==
    IF fields = <<>> THEN <<>>
    ELSE InsertSorted(SortFields(SubSeq(fields, 1, Len(fields) - 1)), fields[Len(fields)])

\* n spaces
Spaces(n) == [i \in 1..n |-> " "]

\* the longest key of the fields
RECURSIVE MaxKeyLen(_)
MaxKeyLen(fields) ==
    IF fields = <<>> THEN 0
    ELSE LET rest == MaxKeyLen(Tail(fields))
         IN  IF Len(Head(fields).key) > rest THEN Len(Head(fields).key) ELSE rest

\* PrettyLine with the separator of two characters, without the padding
PrettyLineUnpadded(f, max_len) ==
    Spaces(4) \o f.key \o <<":", " ">> \o f.value \o <<"\n">>

\* writeln!(pretty_buffer, "    {}{}{}", field.0, seperator, field.1)
PrettyLine(f, max_len) ==
    Spaces(4) \o f.key \o <<":", " ">> \o Spaces(max_len - Len(f.key)) \o f.value \o <<"\n">>

\* Style::new().fg(color).paint(msg), displayed
Paint(level, msg) ==
    LET code == CASE level = "TRACE" -> "5" [] level = "DEBUG" -> "4"
                  [] level = "INFO" -> "2" [] level = "WARN" -> "3"
                  [] level = "ERROR" -> "1"
    IN  <<"ESC", "[", "3", code, "m">> \o msg \o <<"ESC", "[", "0", "m">>

(***************************************************************************)
(* Traceon::serialize.                                                     *)
(*                                                                         *)
(* An event is its metadata (level, module_path, file, line) and the       *)
(* fields of its call site; event!("text") carries the text as the field   *)
(* `message`, a fmt::Arguments that record_debug formats to the text.      *)
(* time_string is what time_convert returns for the clock's reading.  A    *)
(* HashMap iterates in an order of its own: eorder and sorder list the     *)
(* keys of the event's visitor and of the span's storage in that order.    *)
(***************************************************************************)
LevelText(level) ==
    CASE level = "TRACE" -> <<"T","R","A","C","E">>
      [] level = "DEBUG" -> <<"D","E","B","U","G">>
      [] level = "INFO" -> <<"I","N","F","O">>
      [] level = "WARN" -> <<"W","A","R","N">>
      [] level = "ERROR" -> <<"E","R","R","O","R">>

\* the levels as the log crate numbers them (Error = 1 .. Trace = 5)
LevelNumberOfLog(level) ==
    CASE level = "ERROR" -> 1
      [] level = "WARN" -> 2
      [] level = "INFO" -> 3
      [] level = "DEBUG" -> 4
      [] level = "TRACE" -> 5

\* formatting.rs, fn level_to_u16: level.as_log() keeps the level
level_to_u16(level) ==
    CASE level = "ERROR" -> 50
      [] level = "WARN" -> 40
      [] level = "INFO" -> 30
      [] level = "DEBUG" -> 20
      [] level = "TRACE" -> 10

\* serialize: `let number = match *metadata.level()`
LevelNumber(level) ==
    CASE level = "TRACE" -> 10
      [] level = "DEBUG" -> 20
      [] level = "INFO" -> 30
      [] level = "WARN" -> 40
      [] level = "ERROR" -> 50

\* serialize: (level_key, file_key, module_key, timestamp_key)
LevelKey(c) == IF c.case = "Pascal" THEN <<"L","e","v","e","l">> ELSE <<"l","e","v","e","l">>
FileKey(c) == IF c.case = "Pascal" THEN <<"F","i","l","e">> ELSE <<"f","i","l","e">>
ModuleKey(c) ==
    IF c.case = "Pascal" THEN <<"M","o","d","u","l","e">> ELSE <<"m","o","d","u","l","e">>
TimestampKey(c) == IF c.case = "Pascal" THEN <<"T","i","m","e">> ELSE <<"t","i","m","e">>

\* on_event: the visitor the event's fields are recorded into
EventVisitor(c, ev) == VisitAll(JsonStorageNew(c.join_fields, c.span_format), ev.fields)

\* the orders a HashMap with these keys may iterate in
Orders(keys) ==
    {q \in [1..Cardinality(keys) -> keys] : \A i, j \in DOMAIN q : q[i] = q[j] => i = j}

\* serialize: the level as the level format renders it (none under LevelFormat::None)
LevelValue(c, ev) ==
    CASE c.level = "Uppercase" -> <<ValueFromStr(LevelText(ev.level))>>
      [] c.level = "Lowercase" -> <<ValueFromStr(ToAsciiLowercase(LevelText(ev.level)))>>
      [] c.level = "Number" -> <<ValueFromInt(LevelNumber(ev.level))>>
      [] c.level = "None" -> <<>>

\* serialize in pretty mode: write!(msg, "{} ", ...) of the level text or number
DisplayText(v) == IF v.t = "String" THEN v.s ELSE IntToString(v.n)

\* serialize: format!("{}:{}", metadata.file(), metadata.line())
FileValue(ev) == ev.file \o <<":">> \o IntToString(ev.line)

\* EventEntries that keeps the message under the key the visitor stored it under
EventEntriesUnderOwnKeys(c, evis, eorder) ==
    [i \in 1..Len(eorder) |-> Entry(CasedKey(c, eorder[i]), evis.values[eorder[i]])]

\* serialize: the entries of the event's own fields, in JSON mode
EventEntries(c, evis, eorder) ==
    [i \in 1..Len(eorder) |->
        Entry(CasedKey(c, IF eorder[i] = LitMessage THEN c.message_key ELSE eorder[i]),
              evis.values[eorder[i]])]

\* SpanEntries that leaves the span's storage out of the record
SpanEntriesLeftOut(c, hasCurrent, currentExt, sorder) == <<>>

\* serialize: the entries of the current span's storage
SpanEntries(c, hasCurrent, currentExt, sorder) ==
    IF hasCurrent /\ currentExt.has
    THEN [i \in 1..Len(sorder) |-> Entry(CasedKey(c, sorder[i]), currentExt.st.values[sorder[i]])]
    ELSE <<>>

\* JsonRecord with the span's storage ahead of the event's own fields and the
\* level ahead of the time
JsonRecordOutOfOrder(c, ev, time_string, hasCurrent, currentExt, eorder, sorder) ==
    LET evis == EventVisitor(c, ev)
        timeE == IF c.time # "None"
                 THEN <<Entry(TimestampKey(c), ValueFromStr(time_string))>> ELSE <<>>
        levelE == [i \in 1..Len(LevelValue(c, ev)) |-> Entry(LevelKey(c), LevelValue(c, ev)[i])]
        moduleE == IF c.module
                   THEN <<Entry(ModuleKey(c), ValueFromStr(ev.module_path))>> ELSE <<>>
        fileE == IF c.file THEN <<Entry(FileKey(c), ValueFromStr(FileValue(ev)))>> ELSE <<>>
    IN  levelE \o timeE \o moduleE \o fileE
            \o SpanEntries(c, hasCurrent, currentExt, sorder) \o EventEntries(c, evis, eorder)

\* serialize in JSON mode: every serialize_entry on map_serializer, in order
JsonRecord(c, ev, time_string, hasCurrent, currentExt, eorder, sorder) ==
    LET evis == EventVisitor(c, ev)
        timeE == IF c.time # "None"
                 THEN <<Entry(TimestampKey(c), ValueFromStr(time_string))>> ELSE <<>>
        levelE == [i \in 1..Len(LevelValue(c, ev)) |-> Entry(LevelKey(c), LevelValue(c, ev)[i])]
        moduleE == IF c.module
                   THEN <<Entry(ModuleKey(c), ValueFromStr(ev.module_path))>> ELSE <<>>
        fileE == IF c.file THEN <<Entry(FileKey(c), ValueFromStr(FileValue(ev)))>> ELSE <<>>
    IN  timeE \o levelE \o moduleE \o fileE \o EventEntries(c, evis, eorder)
            \o SpanEntries(c, hasCurrent, currentExt, sorder)

\* serialize in pretty mode: the message line written to msg and painted
PrettyMessageLine(c, ev, time_string) ==
    LET evis == EventVisitor(c, ev)
        timeP == IF c.time # "None" THEN time_string \o <<" ">> ELSE <<>>
        levelP == IF c.level = "None" THEN <<>>
                  ELSE DisplayText(LevelValue(c, ev)[1]) \o <<" ">>
        text == IF LitMessage \in DOMAIN evis.values
                THEN clean_json_value(evis.values[LitMessage])
                ELSE <<"e","v","e","n","t"," ","t","r","i","g","g","e","r","e","d">>
    IN  Paint(ev.level, Trim(timeP \o levelP \o text)) \o <<"\n">>

\* serialize in pretty mode: the vector `fields` before it is sorted
PrettyFields(c, ev, hasCurrent, currentExt, eorder, sorder) ==
    LET evis == EventVisitor(c, ev)
        moduleF == IF c.module THEN <<Entry(ModuleKey(c), ev.module_path)>> ELSE <<>>
        fileF == IF c.file THEN <<Entry(FileKey(c), FileValue(ev))>> ELSE <<>>
        eventF == [i \in 1..Len(eorder) |->
                      Entry(CasedKey(c, eorder[i]), clean_json_value(evis.values[eorder[i]]))]
        spanAll == SpanEntries(c, hasCurrent, currentExt, sorder)
        spanF == [i \in 1..Len(spanAll) |->
                      Entry(spanAll[i].key, clean_json_value(spanAll[i].value))]
    IN  moduleF \o fileF
            \o SelectSeq(eventF \o spanF, LAMBDA f : ToAsciiLowercase(f.key) # LitMessage)

\* serialize in pretty mode: pretty_buffer
PrettyBuffer(c, ev, time_string, hasCurrent, currentExt, eorder, sorder) ==
    LET fields == SortFields(PrettyFields(c, ev, hasCurrent, currentExt, eorder, sorder))
        max_len == MaxKeyLen(fields)
    IN  PrettyMessageLine(c, ev, time_string)
            \o Concat([i \in 1..Len(fields) |-> PrettyLine(fields[i], max_len)])

\* serialize, when no `?` returns early: Ok(json_buffer) or Ok(pretty_buffer)
serialize(c, ev, time_string, hasCurrent, currentExt, eorder, sorder) ==
    IF c.json
    THEN JsonObject(JsonRecord(c, ev, time_string, hasCurrent, currentExt, eorder, sorder))
    ELSE PrettyBuffer(c, ev, time_string, hasCurrent, currentExt, eorder, sorder)

(***************************************************************************)
(* Layer::on_event.  `fails` is the serializer returning an error at one   *)
(* of the `?` of serialize, all of which come before the buffer is         *)
(* returned.  With one thread the lock, the write and the unlock of the    *)
(* writer are one step.                                                    *)
(***************************************************************************)
EventNone == [level |-> "INFO", fields |-> <<>>, module_path |-> <<>>, file |-> <<>>, line |-> 0]
LastNone == [written |-> FALSE, ev |-> EventNone, cur |-> NoParent, entries |-> <<>>, drops |-> 0]

\* on_event that writes the line feed of an event serialize failed on
on_eventWritingOnError(ev, time_string, fails, eorder, sorder) ==
    LET cur == LookupCurrent
        hasCurrent == cur # NoParent
        currentExt == IF hasCurrent THEN spans[cur].ext ELSE ExtNone
        buffer == serialize(cfg, ev, time_string, hasCurrent, currentExt, eorder, sorder)
    IN  /\ IF fails
           THEN /\ stderr < MaxDropped
                /\ stderr' = stderr + 1
                /\ sink' = sink \o <<"\n">>
                /\ UNCHANGED <<last, nevents>>
           ELSE /\ nevents < MaxEvents
                /\ nevents' = nevents + 1
                /\ sink' = sink \o (buffer \o <<"\n">>)
                /\ last' = [written |-> TRUE, ev |-> ev, cur |-> cur,
                            entries |-> IF cfg.json
                                        THEN JsonRecord(cfg, ev, time_string, hasCurrent,
                                                        currentExt, eorder, sorder)
                                        ELSE <<>>,
                            drops |-> stderr]
                /\ stderr' = stderr
        /\ UNCHANGED <<cfg, spans, stack, nrecords>>
        /\ UNCHANGED <<threadVars, hostVars>>

\* on_event that records the event's fields into the current span's storage
on_eventStoringFields(ev, time_string, fails, eorder, sorder) ==
    LET cur == LookupCurrent
        hasCurrent == cur # NoParent
        currentExt == IF hasCurrent THEN spans[cur].ext ELSE ExtNone
        buffer == serialize(cfg, ev, time_string, hasCurrent, currentExt, eorder, sorder)
    IN  /\ IF fails
           THEN /\ stderr < MaxDropped
                /\ stderr' = stderr + 1
                /\ UNCHANGED <<sink, last, nevents>>
           ELSE /\ nevents < MaxEvents
                /\ nevents' = nevents + 1
                /\ sink' = sink \o (buffer \o <<"\n">>)
                /\ last' = [written |-> TRUE, ev |-> ev, cur |-> cur,
                            entries |-> IF cfg.json
                                        THEN JsonRecord(cfg, ev, time_string, hasCurrent,
                                                        currentExt, eorder, sorder)
                                        ELSE <<>>,
                            drops |-> stderr]
                /\ stderr' = stderr
        /\ spans' = IF hasCurrent /\ currentExt.has
                    THEN [spans EXCEPT ![cur].ext.st = VisitAll(@, ev.fields)]
                    ELSE spans
        /\ UNCHANGED <<cfg, stack, nrecords>>
        /\ UNCHANGED <<threadVars, hostVars>>

on_event(ev, time_string, fails, eorder, sorder) ==
    LET cur == LookupCurrent
        hasCurrent == cur # NoParent
        currentExt == IF hasCurrent THEN spans[cur].ext ELSE ExtNone
        buffer == serialize(cfg, ev, time_string, hasCurrent, currentExt, eorder, sorder)
    IN  /\ IF fails
           THEN /\ stderr < MaxDropped
                /\ stderr' = stderr + 1
                /\ UNCHANGED <<sink, last, nevents>>
           ELSE /\ nevents < MaxEvents
                /\ nevents' = nevents + 1
                /\ sink' = sink \o (buffer \o <<"\n">>)
                /\ last' = [written |-> TRUE, ev |-> ev, cur |-> cur,
                            entries |-> IF cfg.json
                                        THEN JsonRecord(cfg, ev, time_string, hasCurrent,
                                                        currentExt, eorder, sorder)
                                        ELSE <<>>,
                            drops |-> stderr]
                /\ stderr' = stderr
        /\ UNCHANGED <<cfg, spans, stack, nrecords>>
        /\ UNCHANGED <<threadVars, hostVars>>

(***************************************************************************)
(* The events and configurations of the behaviours.                        *)
(***************************************************************************)
TextEvent == <<"e", "\"", "\n">>
TextMessage == <<"h","i">>
TimeStrings == {<<"t","0">>}
EventLevels == {"INFO"}

MessageField == FieldDebug(LitMessage, TextMessage)
EventFieldInputs == {FieldStr(KeyA, TextEvent), FieldStr(LitSpanLower, TextEvent)}

\* event!(..) without a message and without fields, and event!("hi", ..fields)
EventFieldLists ==
    {<<>>} \cup {<<MessageField>> \o q : q \in SeqsUpTo(EventFieldInputs, MaxFields)}

Events ==
    [level : EventLevels, fields : EventFieldLists,
     module_path : {<<"m">>}, file : {<<"f">>}, line : {7}]

SpanFormats == {SpanFormatNone, SpanFormatJoin(SepSpan), SpanFormatOverwrite}
JoinFieldss == {JoinFieldsOverwrite, JoinFieldsAll(SepField), JoinFieldsSome(SepField, {KeyB})}

\* Traceon::default()
TraceonDefault ==
    [json |-> FALSE, file |-> FALSE, module |-> FALSE, message_key |-> LitMessage,
     span_format |-> SpanFormatJoin(SepSpan), case |-> "None", time |-> "RFC3339",
     join_fields |-> JoinFieldsOverwrite, level |-> "Uppercase"]

\* the builder: the configurations the layer of Spec is built with
Configs ==
    {[TraceonDefault EXCEPT !.json = j, !.span_format = sf, !.join_fields = jf] :
        j \in BOOLEAN, sf \in SpanFormats, jf \in JoinFieldss}

\* no casing function called yet; no global default subscriber set
CallNone == [fn |-> "none", key |-> <<>>, returned |-> <<>>, panicked |-> FALSE]
GlobalNone == [set |-> FALSE, outcome |-> "none", fn |-> "none", asked |-> TraceonDefault, calls |-> 0]

ThreadIds == 1..MaxThreads
ThreadIdle == [pc |-> "idle", buf |-> <<>>, wpos |-> 0]
HandleNone ==
    [stack |-> <<>>, creating |-> 0, attrs |-> <<>>, held |-> {},
     locked |-> 0, target |-> 0, pending |-> <<>>, values |-> <<>>,
     before |-> JsonStorageDefault, turn |-> 0,
     pc |-> "idle", reading |-> 0, visitor |-> JsonStorageDefault]

\* the state after construction, but for the configuration
InitRest ==
    /\ spans = <<>>
    /\ stack = <<>>
    /\ sink = <<>>
    /\ stderr = 0
    /\ last = LastNone
    /\ nrecords = 0
    /\ nevents = 0
    /\ threads = [t \in ThreadIds |-> ThreadIdle]
    /\ writer_lock = 0
    /\ acquired = <<>>
    /\ nemits = 0
    /\ call = CallNone
    /\ global = GlobalNone
    /\ handles = [t \in ThreadIds |-> HandleNone]

Init == cfg \in Configs /\ InitRest

\* a behaviour ends with its MaxEvents-th written event
Running == nevents < MaxEvents

NewSpan ==
    /\ Running
    /\ Len(spans) < MaxSpans
    /\ \E parent \in {LookupCurrent, NoParent}, attrs \in SpanFieldLists(TextOf(Len(spans) + 1)) :
        on_new_span(SpanNameOf(Len(spans) + 1), parent, attrs)

Record ==
    /\ Running
    /\ \E id \in SpanIds, values \in SpanFieldLists(TextSpecial) \ {<<>>} : on_record(id, values)

EnterSpan == Running /\ \E id \in SpanIds : Enter(id)

ExitSpan == Running /\ Exit

Event ==
    /\ Running
    /\ \E ev \in Events, time_string \in TimeStrings, fails \in BOOLEAN :
         \E eorder \in Orders(DOMAIN EventVisitor(cfg, ev).values),
            sorder \in Orders(IF stack # <<>> /\ spans[LookupCurrent].ext.has
                              THEN DOMAIN spans[LookupCurrent].ext.st.values ELSE {}) :
             on_event(ev, time_string, fails, eorder, sorder)

Next == NewSpan \/ Record \/ EnterSpan \/ ExitSpan \/ Event

Spec == Init /\ [][Next]_vars

(***************************************************************************)
(* SpecStore: the span notifications alone, on deeper span trees and with  *)
(* more kinds of fields.  The storage does not depend on `json`.           *)
(***************************************************************************)
NewSpanTree ==
    /\ Len(spans) < MaxTreeSpans
    /\ \E parent \in {LookupCurrent, NoParent}, attrs \in TreeFieldLists(TextOf(Len(spans) + 1)) :
        on_new_span(SpanNameOf(Len(spans) + 1), parent, attrs)

RecordTree ==
    \E id \in SpanIds, values \in TreeFieldLists(TextSpecial) \ {<<>>} : on_record(id, values)

InitStore == Init /\ ~cfg.json

NextStore == NewSpanTree \/ RecordTree \/ EnterSpan \/ ExitSpan

SpecStore == InitStore /\ [][NextStore]_vars

(***************************************************************************)
(* SpecFmt: one event, in or outside one span, under every combination of  *)
(* the options serialize reads.                                            *)
(***************************************************************************)
Cases == {"None", "Camel", "Pascal", "Snake"}
LevelFormats == {"None", "Uppercase", "Lowercase", "Number"}
TimeFormats == {"None", "RFC3339"}
MessageKeys == {LitMessage, <<"m","s","g">>, <<"m","\n">>}

FmtConfigs ==
    {[TraceonDefault EXCEPT !.json = j, !.case = cs, !.level = lf, !.time = tf,
                            !.module = mo, !.file = fi, !.message_key = mk,
                            !.span_format = sf] :
        j \in BOOLEAN, cs \in Cases, lf \in LevelFormats, tf \in TimeFormats,
        mo \in BOOLEAN, fi \in BOOLEAN, mk \in MessageKeys,
        sf \in {SpanFormatNone, SpanFormatJoin(SepSpan)}}

NewSpanFmt ==
    /\ Running
    /\ Len(spans) < MaxFmtSpans
    /\ \E attrs \in SpanFieldLists(TextSpecial) :
        on_new_span(SpanNameOf(Len(spans) + 1), LookupCurrent, attrs)

InitFmt == cfg \in FmtConfigs /\ InitRest

NextFmt == NewSpanFmt \/ EnterSpan \/ Event

SpecFmt == InitFmt /\ [][NextFmt]_vars

(***************************************************************************)
(* SpecWriter: several threads in on_event at once, outside every span.    *)
(* A thread serializes its event into its own buffer and appends the line  *)
(* feed, locks the writer, has write_all write the buffer (Write::write    *)
(* may take any non-empty part of what is left), and drops the guard at    *)
(* the end of the statement.                                               *)
(***************************************************************************)
WriterConfigs ==
    {[TraceonDefault EXCEPT !.json = TRUE, !.time = "None", !.level = lf] :
        lf \in {"None", "Number"}}

\* the event thread t emits: event!(a = t)
ThreadEvent(t) ==
    [level |-> "INFO", fields |-> <<FieldI64(KeyA, t)>>,
     module_path |-> <<"m">>, file |-> <<"f">>, line |-> 7]

\* on_event up to the lock: serialize returned Ok(buffer), buffer.write_all(b"\n")
Serialize(t) ==
    /\ threads[t].pc = "idle"
    /\ nemits < MaxEmits
    /\ nemits' = nemits + 1
    /\ threads' = [threads EXCEPT ![t] =
          [pc |-> "buffered",
           buf |-> serialize(cfg, ThreadEvent(t), <<>>, FALSE, ExtNone, <<KeyA>>, <<>>)
                       \o <<"\n">>,
           wpos |-> 0]]
    /\ UNCHANGED <<layerVars, writer_lock, acquired>>
    /\ UNCHANGED hostVars

\* Lock that does not wait for the mutex
LockWithoutMutex(t) ==
    /\ threads[t].pc = "buffered"
    /\ writer_lock' = t
    /\ acquired' = Append(acquired, threads[t].buf)
    /\ threads' = [threads EXCEPT ![t].pc = "writing"]
    /\ UNCHANGED <<layerVars, nemits>>
    /\ UNCHANGED hostVars

\* self.writer.lock().unwrap(): the thread waits until the mutex is free
Lock(t) ==
    /\ threads[t].pc = "buffered"
    /\ writer_lock = 0
    /\ writer_lock' = t
    /\ acquired' = Append(acquired, threads[t].buf)
    /\ threads' = [threads EXCEPT ![t].pc = "writing"]
    /\ UNCHANGED <<layerVars, nemits>>
    /\ UNCHANGED hostVars

\* write_all: one Write::write of the next n bytes of the buffer
Write(t, n) ==
    /\ threads[t].pc = "writing"
    /\ threads[t].wpos + n <= Len(threads[t].buf)
    /\ sink' = sink \o SubSeq(threads[t].buf, threads[t].wpos + 1, threads[t].wpos + n)
    /\ threads' = [threads EXCEPT ![t].wpos = @ + n]
    /\ UNCHANGED <<cfg, spans, stack, stderr, last, nrecords, nevents>>
    /\ UNCHANGED <<writer_lock, acquired, nemits>>
    /\ UNCHANGED hostVars

\* write_all returned Ok(()): the MutexGuard is dropped and on_event returns
Unlock(t) ==
    /\ threads[t].pc = "writing"
    /\ threads[t].wpos = Len(threads[t].buf)
    /\ writer_lock' = 0
    /\ threads' = [threads EXCEPT ![t] = ThreadIdle]
    /\ UNCHANGED <<layerVars, acquired, nemits>>
    /\ UNCHANGED hostVars

\* Write::write takes the whole rest of the buffer or a part of it
ChunkSizes(t) == {1, ChunkPart, Len(threads[t].buf) - threads[t].wpos} \ {0}

ThreadSerialize == \E t \in ThreadIds : Serialize(t)
ThreadLock == \E t \in ThreadIds : Lock(t)
ThreadWrite == \E t \in ThreadIds : \E n \in ChunkSizes(t) : Write(t, n)
ThreadUnlock == \E t \in ThreadIds : Unlock(t)

InitWriter == cfg \in WriterConfigs /\ InitRest

NextWriter == ThreadSerialize \/ ThreadLock \/ ThreadWrite \/ ThreadUnlock

SpecWriter == InitWriter /\ [][NextWriter]_vars

(***************************************************************************)
(* SpecPoison: SpecWriter with a sink whose Write::write may return an      *)
(* error.  write_all(..).unwrap() then panics while the MutexGuard, a       *)
(* temporary of the statement, is alive: the guard is dropped during the    *)
(* unwinding, which unlocks the mutex and marks it poisoned; lock() on a    *)
(* poisoned mutex returns Err, and its unwrap() panics.  A thread that      *)
(* panicked may be replaced by one that emits again (or catch the panic).   *)
(***************************************************************************)
\* writer_lock of a mutex that is unlocked and poisoned
Poisoned == -1

\* lock() on a poisoned mutex that takes the guard out of the error
LockPoisonedRecovering(t) ==
    /\ threads[t].pc = "buffered"
    /\ writer_lock = Poisoned
    /\ writer_lock' = t
    /\ acquired' = Append(acquired, threads[t].buf)
    /\ threads' = [threads EXCEPT ![t].pc = "writing"]
    /\ UNCHANGED <<layerVars, nemits>>
    /\ UNCHANGED hostVars

\* self.writer.lock().unwrap() on a poisoned mutex: on_event panics
LockPoisoned(t) ==
    /\ threads[t].pc = "buffered"
    /\ writer_lock = Poisoned
    /\ threads' = [threads EXCEPT ![t] = [pc |-> "panicked", buf |-> <<>>, wpos |-> 0]]
    /\ UNCHANGED <<layerVars, writer_lock, acquired, nemits>>
    /\ UNCHANGED hostVars

\* write_all(&buffer).unwrap(): a Write::write returned an error
WriteFails(t) ==
    /\ threads[t].pc = "writing"
    /\ threads[t].wpos < Len(threads[t].buf)
    /\ writer_lock' = Poisoned
    /\ threads' = [threads EXCEPT ![t] = [pc |-> "panicked", buf |-> <<>>, wpos |-> 0]]
    /\ UNCHANGED <<layerVars, acquired, nemits>>
    /\ UNCHANGED hostVars

\* the panic caught, or another thread in the place of the one that ended
Recover(t) ==
    /\ threads[t].pc = "panicked"
    /\ threads' = [threads EXCEPT ![t] = ThreadIdle]
    /\ UNCHANGED <<layerVars, writer_lock, acquired, nemits>>
    /\ UNCHANGED hostVars

ThreadWriteFails == \E t \in ThreadIds : WriteFails(t)
ThreadLockPoisoned == \E t \in ThreadIds : LockPoisoned(t)
ThreadRecover == \E t \in ThreadIds : Recover(t)

NextPoison ==
    \/ ThreadSerialize \/ ThreadLock \/ ThreadWrite \/ ThreadUnlock
    \/ ThreadWriteFails \/ ThreadLockPoisoned \/ ThreadRecover

SpecPoison == InitWriter /\ [][NextPoison]_vars

(***************************************************************************)
(* SpecOutput: one thread, a span, an on_record and several events, some    *)
(* of which serialize fails on; nemits counts the on_event calls.           *)
(***************************************************************************)
\* on_eventCounted that takes the storage of the span created last, not of the
\* current span
on_eventCountedNewestSpan(ev, time_string, fails, eorder, sorder) ==
    LET cur == Len(spans)
        hasCurrent == LookupCurrent # NoParent
        currentExt == IF hasCurrent THEN spans[cur].ext ELSE ExtNone
        buffer == serialize(cfg, ev, time_string, hasCurrent, currentExt, eorder, sorder)
    IN  /\ nemits < MaxEmits
        /\ nemits' = nemits + 1
        /\ IF fails
           THEN /\ stderr' = stderr + 1
                /\ UNCHANGED <<sink, last, nevents>>
           ELSE /\ nevents' = nevents + 1
                /\ sink' = sink \o (buffer \o <<"\n">>)
                /\ last' = [written |-> TRUE, ev |-> ev, cur |-> LookupCurrent,
                            entries |-> IF cfg.json
                                        THEN JsonRecord(cfg, ev, time_string, hasCurrent,
                                                        currentExt, eorder, sorder)
                                        ELSE <<>>,
                            drops |-> stderr]
                /\ stderr' = stderr
        /\ UNCHANGED <<cfg, spans, stack, nrecords>>
        /\ UNCHANGED <<threads, writer_lock, acquired, hostVars>>

\* Layer::on_event, for the behaviours with several events
on_eventCounted(ev, time_string, fails, eorder, sorder) ==
    LET cur == LookupCurrent
        hasCurrent == cur # NoParent
        currentExt == IF hasCurrent THEN spans[cur].ext ELSE ExtNone
        buffer == serialize(cfg, ev, time_string, hasCurrent, currentExt, eorder, sorder)
    IN  /\ nemits < MaxEmits
        /\ nemits' = nemits + 1
        /\ IF fails
           THEN /\ stderr' = stderr + 1
                /\ UNCHANGED <<sink, last, nevents>>
           ELSE /\ nevents' = nevents + 1
                /\ sink' = sink \o (buffer \o <<"\n">>)
                /\ last' = [written |-> TRUE, ev |-> ev, cur |-> cur,
                            entries |-> IF cfg.json
                                        THEN JsonRecord(cfg, ev, time_string, hasCurrent,
                                                        currentExt, eorder, sorder)
                                        ELSE <<>>,
                            drops |-> stderr]
                /\ stderr' = stderr
        /\ UNCHANGED <<cfg, spans, stack, nrecords>>
        /\ UNCHANGED <<threads, writer_lock, acquired, hostVars>>

OutputConfigs == {[TraceonDefault EXCEPT !.json = j] : j \in BOOLEAN}

OutputEvents ==
    [level : {"INFO"}, fields : {<<>>, <<MessageField, FieldStr(KeyA, TextEvent)>>},
     module_path : {<<"m">>}, file : {<<"f">>}, line : {7}]

OutputNewSpan ==
    /\ Len(spans) < MaxFmtSpans
    /\ \E attrs \in SpanFieldLists(TextSpecial) :
        on_new_span(SpanNameOf(Len(spans) + 1), LookupCurrent, attrs)

OutputRecord ==
    \E id \in SpanIds, values \in SpanFieldLists(TextSpecial) \ {<<>>} : on_record(id, values)

OutputEnter == \E id \in SpanIds : Enter(id)

OutputEvent ==
    \E ev \in OutputEvents, time_string \in TimeStrings, fails \in BOOLEAN :
        \E eorder \in Orders(DOMAIN EventVisitor(cfg, ev).values),
           sorder \in Orders(IF stack # <<>> /\ spans[LookupCurrent].ext.has
                             THEN DOMAIN spans[LookupCurrent].ext.st.values ELSE {}) :
            on_eventCounted(ev, time_string, fails, eorder, sorder)

InitOutput == cfg \in OutputConfigs /\ InitRest

NextOutput == OutputNewSpan \/ OutputRecord \/ OutputEnter \/ OutputEvent

SpecOutput == InitOutput /\ [][NextOutput]_vars

(***************************************************************************)
(* SpecNest: an outer span and a span nested in it, entered and exited,     *)
(* with events in between, under every span format.                        *)
(***************************************************************************)
NestConfigs == {[TraceonDefault EXCEPT !.json = TRUE, !.span_format = sf] : sf \in SpanFormats}

\* the outer span has a = "x1", the inner one a = "x2" or b = 3
NestFieldLists(id) ==
    IF id = 1 THEN {<<FieldStr(KeyA, TextOf(1))>>}
    ELSE {<<FieldStr(KeyA, TextOf(id))>>, <<FieldI64(KeyB, 3)>>}

NestNewSpan ==
    /\ Len(spans) < MaxSpans
    /\ Len(spans) = Len(stack)
    /\ \E attrs \in NestFieldLists(Len(spans) + 1) :
        on_new_span(SpanNameOf(Len(spans) + 1), LookupCurrent, attrs)

NestEnter == \E id \in SpanIds : Enter(id)

NestExit == stack # <<>> /\ Exit

NestEvent ==
    \E ev \in OutputEvents, time_string \in TimeStrings :
        \E eorder \in Orders(DOMAIN EventVisitor(cfg, ev).values),
           sorder \in Orders(IF stack # <<>> /\ spans[LookupCurrent].ext.has
                             THEN DOMAIN spans[LookupCurrent].ext.st.values ELSE {}) :
            on_eventCounted(ev, time_string, FALSE, eorder, sorder)

InitNest == cfg \in NestConfigs /\ InitRest

NextNest == NestNewSpan \/ NestEnter \/ NestExit \/ NestEvent

SpecNest == InitNest /\ [][NextNest]_vars

(***************************************************************************)
(* SpecSpanField: a span whose call site, and a Span::record on it, give a  *)
(* field named span or SPAN, as a string or as a number, under every span   *)
(* format and under field policies that would join it.                      *)
(***************************************************************************)
LitSpanUpper == <<"S","P","A","N">>

SpanNamedInputs ==
    {FieldStr(LitSpanLower, TextOf(1)), FieldStr(LitSpanUpper, TextOf(2)),
     FieldI64(LitSpanLower, 2)}

SpanNamedConfigs ==
    {[TraceonDefault EXCEPT !.json = TRUE, !.span_format = sf, !.join_fields = jf] :
        sf \in SpanFormats,
        jf \in {JoinFieldsOverwrite, JoinFieldsAll(SepField),
                JoinFieldsSome(SepField, {LitSpanLower, LitSpanUpper})}}

SpanNamedNewSpan ==
    /\ Running
    /\ Len(spans) < MaxFmtSpans
    /\ \E attrs \in SeqsUpTo(SpanNamedInputs, MaxFields) :
        on_new_span(SpanNameOf(Len(spans) + 1), LookupCurrent, attrs)

SpanNamedRecord ==
    /\ Running
    /\ \E id \in SpanIds, f \in SpanNamedInputs : on_record(id, <<f>>)

InitSpanField == cfg \in SpanNamedConfigs /\ InitRest

NextSpanField == SpanNamedNewSpan \/ SpanNamedRecord \/ EnterSpan \/ Event

SpecSpanField == InitSpanField /\ [][NextSpanField]_vars

(***************************************************************************)
(* SpecShared: several threads creating spans, recording on them, entering *)
(* them and emitting events in them.  Span::new has the registry create    *)
(* the span, then the layer is notified (on_new_span finds the span with   *)
(* ctx.span(id)), then the caller gets the Span; a Span is Clone and Send, *)
(* so a thread may hold a span that another one created.  Each thread has  *)
(* its own stack of entered spans.                                         *)
(***************************************************************************)
\* Context::lookup_current on thread t
CurrentOf(t) ==
    IF handles[t].stack = <<>> THEN NoParent
    ELSE handles[t].stack[Len(handles[t].stack)]

\* the registry's new_span: the span exists, without extensions of the layer
RegistryNewSpan(t, parent, attrs) ==
    /\ handles[t].creating = 0
    /\ spans' = Append(spans, [name |-> SpanNameOf(Len(spans) + 1), parent |-> parent,
                                given |-> {}, ext |-> ExtNone])
    /\ handles' = [handles EXCEPT ![t].creating = Len(spans) + 1, ![t].attrs = attrs]
    /\ UNCHANGED <<cfg, stack, sink, stderr, last, nrecords, nevents>>
    /\ UNCHANGED <<threadVars, call, global>>

\* on_new_span that inserts the visitor only when the call site gave a field
AttachedExtensionsIfFields(c, hasParent, parentExt, name, attrs) ==
    IF attrs = <<>> THEN ExtNone
    ELSE ExtSome(NewSpanStorage(c, hasParent, parentExt, name, attrs))

\* on_new_span: extensions.insert(visitor)
AttachedExtensions(c, hasParent, parentExt, name, attrs) ==
    ExtSome(NewSpanStorage(c, hasParent, parentExt, name, attrs))

\* Layer::on_new_span for the span the registry created for thread t; when it
\* returns, Span::new returns the span to the caller
on_new_spanBy(t) ==
    LET id == handles[t].creating
        parent == spans[id].parent
        attrs == handles[t].attrs
    IN  /\ id # 0
        /\ spans' = [spans EXCEPT
              ![id].ext = AttachedExtensions(cfg, parent # NoParent,
                              IF parent # NoParent THEN spans[parent].ext ELSE ExtNone,
                              spans[id].name, attrs),
              ![id].given = {attrs[i].name : i \in 1..Len(attrs)}]
        /\ handles' = [handles EXCEPT ![t].creating = 0, ![t].attrs = <<>>,
                                      ![t].held = @ \cup {id}]
        /\ UNCHANGED <<cfg, stack, sink, stderr, last, nrecords, nevents>>
        /\ UNCHANGED <<threadVars, call, global>>

\* Span::clone, the clone sent to thread u
CloneHandle(t, u, id) ==
    /\ id \in handles[t].held
    /\ id \notin handles[u].held
    /\ handles' = [handles EXCEPT ![u].held = @ \cup {id}]
    /\ UNCHANGED <<layerVars, threadVars, call, global>>

\* Span::record on a span the thread holds
on_recordBy(t, id, values) ==
    /\ id \in handles[t].held
    /\ on_record(id, values)

\* Span::enter on a span the thread holds
EnterBy(t, id) ==
    /\ id \in handles[t].held
    /\ \A i \in 1..Len(handles[t].stack) : handles[t].stack[i] # id
    /\ handles' = [handles EXCEPT ![t].stack = Append(@, id)]
    /\ UNCHANGED <<layerVars, threadVars, call, global>>

\* the guard of the current span dropped
ExitBy(t) ==
    /\ handles[t].stack # <<>>
    /\ handles' = [handles EXCEPT ![t].stack = SubSeq(@, 1, Len(@) - 1)]
    /\ UNCHANGED <<layerVars, threadVars, call, global>>

\* Layer::on_event on a thread whose current span is cur
on_eventIn(cur, ev, time_string, fails, eorder, sorder) ==
    LET hasCurrent == cur # NoParent
        currentExt == IF hasCurrent THEN spans[cur].ext ELSE ExtNone
        buffer == serialize(cfg, ev, time_string, hasCurrent, currentExt, eorder, sorder)
    IN  /\ IF fails
           THEN /\ stderr < MaxDropped
                /\ stderr' = stderr + 1
                /\ UNCHANGED <<sink, last, nevents>>
           ELSE /\ nevents < MaxEvents
                /\ nevents' = nevents + 1
                /\ sink' = sink \o (buffer \o <<"\n">>)
                /\ last' = [written |-> TRUE, ev |-> ev, cur |-> cur,
                            entries |-> IF cfg.json
                                        THEN JsonRecord(cfg, ev, time_string, hasCurrent,
                                                        currentExt, eorder, sorder)
                                        ELSE <<>>,
                            drops |-> stderr]
                /\ stderr' = stderr
        /\ UNCHANGED <<cfg, spans, stack, nrecords>>
        /\ UNCHANGED <<threadVars, hostVars>>

SharedConfigs == {[TraceonDefault EXCEPT !.json = TRUE, !.join_fields = JoinFieldsAll(SepField)]}

\* event!("hi")
SharedEvent ==
    [level |-> "INFO", fields |-> <<MessageField>>,
     module_path |-> <<"m">>, file |-> <<"f">>, line |-> 7]

ThreadNewSpan ==
    /\ Running
    /\ Len(spans) < MaxSharedSpans
    /\ \E t \in ThreadIds :
        \E parent \in {CurrentOf(t), NoParent} \cup handles[t].held,
           attrs \in SpanFieldLists(TextOf(Len(spans) + 1)) :
            RegistryNewSpan(t, parent, attrs)

ThreadNotified == Running /\ \E t \in ThreadIds : on_new_spanBy(t)

ThreadClone == Running /\ \E t, u \in ThreadIds, id \in SpanIds : CloneHandle(t, u, id)

ThreadRecord ==
    /\ Running
    /\ \E t \in ThreadIds, id \in SpanIds, values \in SpanFieldLists(TextSpecial) \ {<<>>} :
        on_recordBy(t, id, values)

ThreadEnter == Running /\ \E t \in ThreadIds, id \in SpanIds : EnterBy(t, id)

ThreadExit == Running /\ \E t \in ThreadIds : ExitBy(t)

ThreadEmit ==
    /\ Running
    /\ \E t \in ThreadIds, time_string \in TimeStrings, fails \in BOOLEAN :
         \E sorder \in Orders(IF CurrentOf(t) # NoParent /\ spans[CurrentOf(t)].ext.has
                               THEN DOMAIN spans[CurrentOf(t)].ext.st.values ELSE {}) :
             on_eventIn(CurrentOf(t), SharedEvent, time_string, fails, <<LitMessage>>, sorder)

InitShared == cfg \in SharedConfigs /\ InitRest

NextShared ==
    \/ ThreadNewSpan \/ ThreadNotified \/ ThreadClone \/ ThreadRecord
    \/ ThreadEnter \/ ThreadExit \/ ThreadEmit

SpecShared == InitShared /\ [][NextShared]_vars

(***************************************************************************)
(* SpecLock: two threads holding the same spans, each calling Span::record *)
(* once with two fields.  span.extensions_mut() takes the write lock of    *)
(* the span's extensions and on_record keeps the guard until it returns;   *)
(* values.record(visitor) calls the visitor once for each field.           *)
(* span.extensions() in serialize and parent_span.extensions_mut() in      *)
(* on_new_span wait while another thread holds that write lock.  Of a      *)
(* thread's on_record the handle keeps the span (target), the lock it      *)
(* holds (locked), the fields still to visit (pending), the values, the    *)
(* storage found when the lock was acquired (before) and its place in the  *)
(* order of acquisitions (turn).                                           *)
(***************************************************************************)
\* no thread holds the write lock of the span's extensions
ExtensionsFree(id) == \A u \in ThreadIds : handles[u].locked # id

\* span.record("a", "x<t>") and "b" likewise, in one call
LockValues(t) == <<FieldStr(KeyA, TextOf(t)), FieldStr(KeyB, TextOf(t))>>

\* extensions_mut() that does not wait for the lock
RecordLockWithoutWaiting(t, id, values) ==
    /\ id \in handles[t].held
    /\ handles[t].turn = 0
    /\ spans[id].ext.has
    /\ handles' = [handles EXCEPT ![t].locked = id, ![t].target = id,
                                  ![t].pending = values, ![t].values = values,
                                  ![t].before = spans[id].ext.st,
                                  ![t].turn = nrecords + 1]
    /\ nrecords' = nrecords + 1
    /\ UNCHANGED <<cfg, spans, stack, sink, stderr, last, nevents>>
    /\ UNCHANGED <<threadVars, call, global>>

\* on_record: span.extensions_mut() and get_mut::<JsonStorage>()
RecordLock(t, id, values) ==
    /\ id \in handles[t].held
    /\ handles[t].turn = 0
    /\ spans[id].ext.has
    /\ ExtensionsFree(id)
    /\ handles' = [handles EXCEPT ![t].locked = id, ![t].target = id,
                                  ![t].pending = values, ![t].values = values,
                                  ![t].before = spans[id].ext.st,
                                  ![t].turn = nrecords + 1]
    /\ nrecords' = nrecords + 1
    /\ UNCHANGED <<cfg, spans, stack, sink, stderr, last, nevents>>
    /\ UNCHANGED <<threadVars, call, global>>

\* on_record: values.record(visitor), the visitor's call for the next field
RecordVisitNext(t) ==
    /\ handles[t].locked # 0
    /\ handles[t].pending # <<>>
    /\ spans' = [spans EXCEPT
          ![handles[t].locked].ext.st = VisitField(@, Head(handles[t].pending)),
          ![handles[t].locked].given = @ \cup {Head(handles[t].pending).name}]
    /\ handles' = [handles EXCEPT ![t].pending = Tail(@)]
    /\ UNCHANGED <<cfg, stack, sink, stderr, last, nrecords, nevents>>
    /\ UNCHANGED <<threadVars, call, global>>

\* on_record returns: the guard is dropped
RecordUnlock(t) ==
    /\ handles[t].locked # 0
    /\ handles[t].pending = <<>>
    /\ handles' = [handles EXCEPT ![t].locked = 0]
    /\ UNCHANGED <<layerVars, threadVars, call, global>>

LockNewSpan ==
    /\ Running
    /\ Len(spans) < MaxSharedSpans
    /\ \E t \in ThreadIds :
        \E parent \in {CurrentOf(t), NoParent} \cup handles[t].held :
            RegistryNewSpan(t, parent, <<>>)

\* on_new_span: parent_span.extensions_mut() waits for the parent's lock
LockNotified ==
    /\ Running
    /\ \E t \in ThreadIds :
        /\ handles[t].creating # 0
        /\ spans[handles[t].creating].parent # NoParent
              => ExtensionsFree(spans[handles[t].creating].parent)
        /\ on_new_spanBy(t)

LockRecord ==
    Running /\ \E t \in ThreadIds, id \in SpanIds : RecordLock(t, id, LockValues(t))

LockVisit == Running /\ \E t \in ThreadIds : RecordVisitNext(t)

LockRelease == Running /\ \E t \in ThreadIds : RecordUnlock(t)

\* serialize: span.extensions() waits for the current span's lock
LockEmit ==
    /\ Running
    /\ \E t \in ThreadIds, time_string \in TimeStrings :
         /\ handles[t].locked = 0
         /\ CurrentOf(t) # NoParent => ExtensionsFree(CurrentOf(t))
         /\ \E sorder \in Orders(IF CurrentOf(t) # NoParent /\ spans[CurrentOf(t)].ext.has
                                  THEN DOMAIN spans[CurrentOf(t)].ext.st.values ELSE {}) :
               on_eventIn(CurrentOf(t), SharedEvent, time_string, FALSE, <<LitMessage>>, sorder)

InitLock == cfg \in SharedConfigs /\ InitRest

NextLock ==
    \/ LockNewSpan \/ LockNotified \/ ThreadClone \/ LockRecord \/ LockVisit
    \/ LockRelease \/ ThreadEnter \/ LockEmit

SpecLock == InitLock /\ [][NextLock]_vars

(***************************************************************************)
(* SpecHold: the callbacks of several threads step by step, a step for each *)
(* lock taken and each lock released.  on_new_span: the parent's            *)
(* extensions_mut() and the clone (pc "cloned"), the guard dropped at the   *)
(* end of the `if let` block ("built"), the new span's extensions_mut()     *)
(* ("attaching"), attrs.record and extensions.insert, the guard dropped    *)
(* on return.  on_event: span.extensions() inside serialize                *)
(* ("serializing", reading the span), the guard dropped when the block     *)
(* ends and serialize returns the buffer; then the writer's lock, the      *)
(* write and the unlock as in SpecWriter.  on_record as in SpecLock.       *)
(***************************************************************************)
\* no thread holds the read lock of the span's extensions
Unread(id) == \A u \in ThreadIds : handles[u].reading # id

\* the thread is in none of the layer's callbacks
Idle(t) ==
    /\ handles[t].pc = "idle" /\ handles[t].creating = 0 /\ handles[t].locked = 0
    /\ threads[t].pc = "idle"

\* on_new_span that still holds the parent's guard when it locks the new span
ReleaseParentLate(t) ==
    /\ handles[t].pc = "cloned"
    /\ handles' = [handles EXCEPT ![t].pc = "built"]
    /\ UNCHANGED <<layerVars, threadVars, call, global>>

\* on_new_span of a span with a parent: parent_span.extensions_mut(), the clone
\* of the parent's storage and the span name put into it
CloneParent(t) ==
    LET id == handles[t].creating
        parent == spans[id].parent
    IN  /\ handles[t].pc = "idle" /\ id # 0
        /\ parent # NoParent
        /\ ExtensionsFree(parent) /\ Unread(parent)
        /\ handles' = [handles EXCEPT
              ![t].locked = parent, ![t].pc = "cloned",
              ![t].visitor = InheritedStorage(cfg, spans[parent].ext, spans[id].name)]
        /\ UNCHANGED <<layerVars, threadVars, call, global>>

\* on_new_span: the end of the `if let Some(parent_span)` block drops the guard
ReleaseParent(t) ==
    /\ handles[t].pc = "cloned"
    /\ handles' = [handles EXCEPT ![t].locked = 0, ![t].pc = "built"]
    /\ UNCHANGED <<layerVars, threadVars, call, global>>

\* on_new_span of a root span: JsonStorage::new and the span name
NewRoot(t) ==
    LET id == handles[t].creating
    IN  /\ handles[t].pc = "idle" /\ id # 0
        /\ spans[id].parent = NoParent
        /\ handles' = [handles EXCEPT
              ![t].pc = "built", ![t].visitor = RootStorage(cfg, spans[id].name)]
        /\ UNCHANGED <<layerVars, threadVars, call, global>>

\* on_new_span: span.extensions_mut() of the new span
LockNew(t) ==
    LET id == handles[t].creating
    IN  /\ handles[t].pc = "built"
        /\ ExtensionsFree(id) /\ Unread(id)
        /\ handles' = [handles EXCEPT ![t].locked = id, ![t].pc = "attaching"]
        /\ UNCHANGED <<layerVars, threadVars, call, global>>

\* on_new_span: attrs.record(&mut visitor), extensions.insert(visitor), return
Attach(t) ==
    LET id == handles[t].creating
    IN  /\ handles[t].pc = "attaching"
        /\ spans' = [spans EXCEPT
              ![id].ext = ExtSome(VisitAll(handles[t].visitor, handles[t].attrs)),
              ![id].given = {handles[t].attrs[i].name : i \in 1..Len(handles[t].attrs)}]
        /\ handles' = [handles EXCEPT
              ![t].creating = 0, ![t].attrs = <<>>, ![t].held = @ \cup {id},
              ![t].locked = 0, ![t].pc = "idle", ![t].visitor = JsonStorageDefault]
        /\ UNCHANGED <<cfg, stack, sink, stderr, last, nrecords, nevents>>
        /\ UNCHANGED <<threadVars, call, global>>

\* serialize: ctx.lookup_current() and span.extensions() of the current span
ReadCurrent(t) ==
    /\ Idle(t)
    /\ nemits < MaxThreads
    /\ CurrentOf(t) # NoParent => ExtensionsFree(CurrentOf(t))
    /\ nemits' = nemits + 1
    /\ handles' = [handles EXCEPT ![t].reading = CurrentOf(t), ![t].pc = "serializing"]
    /\ UNCHANGED <<layerVars, threads, writer_lock, acquired, call, global>>

\* serialize: the storage's entries serialized, the guard dropped, Ok(buffer);
\* on_event: buffer.write_all(b"\n")
Serialized(t, sorder) ==
    LET cur == CurrentOf(t)
    IN  /\ handles[t].pc = "serializing"
        /\ threads' = [threads EXCEPT ![t] =
              [pc |-> "buffered",
               buf |-> serialize(cfg, SharedEvent, <<>>, cur # NoParent,
                                 IF cur # NoParent THEN spans[cur].ext ELSE ExtNone,
                                 <<LitMessage>>, sorder) \o <<"\n">>,
               wpos |-> 0]]
        /\ handles' = [handles EXCEPT ![t].reading = 0, ![t].pc = "idle"]
        /\ UNCHANGED <<layerVars, writer_lock, acquired, nemits, call, global>>

HoldConfigs == {[TraceonDefault EXCEPT !.json = TRUE, !.time = "None"]}

HoldRegistry ==
    /\ Len(spans) < MaxSharedSpans
    /\ \E t \in ThreadIds :
        /\ Idle(t)
        /\ \E parent \in {CurrentOf(t), NoParent} \cup handles[t].held :
              RegistryNewSpan(t, parent, <<>>)

HoldClone == \E t \in ThreadIds : CloneParent(t)
HoldRelease == \E t \in ThreadIds : ReleaseParent(t)
HoldRoot == \E t \in ThreadIds : NewRoot(t)
HoldLockNew == \E t \in ThreadIds : LockNew(t)
HoldAttach == \E t \in ThreadIds : Attach(t)

HoldHandle == \E t, u \in ThreadIds, id \in SpanIds : Idle(t) /\ CloneHandle(t, u, id)

HoldEnter == \E t \in ThreadIds, id \in SpanIds : Idle(t) /\ EnterBy(t, id)

HoldRecord ==
    \E t \in ThreadIds, id \in SpanIds :
        Idle(t) /\ Unread(id) /\ RecordLock(t, id, <<FieldStr(KeyA, TextOf(t))>>)

HoldRead == \E t \in ThreadIds : ReadCurrent(t)

HoldSerialized ==
    \E t \in ThreadIds :
        /\ handles[t].pc = "serializing"
        /\ \E sorder \in Orders(IF CurrentOf(t) # NoParent /\ spans[CurrentOf(t)].ext.has
                                  THEN DOMAIN spans[CurrentOf(t)].ext.st.values ELSE {}) :
              Serialized(t, sorder)

HoldWrite ==
    \E t \in ThreadIds :
        threads[t].pc = "writing" /\ Write(t, Len(threads[t].buf) - threads[t].wpos)

InitHold == cfg \in HoldConfigs /\ InitRest

NextHold ==
    \/ HoldRegistry \/ HoldClone \/ HoldRelease \/ HoldRoot \/ HoldLockNew \/ HoldAttach
    \/ HoldHandle \/ HoldEnter \/ HoldRecord \/ LockVisit \/ LockRelease
    \/ HoldRead \/ HoldSerialized \/ ThreadLock \/ HoldWrite \/ ThreadUnlock

SpecHold == InitHold /\ [][NextHold]_vars

(***************************************************************************)
(* SpecVisit: spans and Span::record calls whose field has a value of      *)
(* every kind the visitor is called with, under a plain name, a name with  *)
(* the `log.` prefix of tracing-log's fields and a raw identifier (r#a);   *)
(* events in and outside the spans.                                        *)
(***************************************************************************)
KeyLogA == <<"l","o","g",".","a">>
KeyRawA == <<"r","#","a">>
VisitNames == {KeyA, KeyLogA, KeyRawA}

\* a = 2i64, 3u64, 0.5, f64::NAN, true, "x1", 7i128, ?v with {:?} giving `d`
VisitFieldInputs ==
    UNION {{FieldI64(name, 2), FieldU64(name, 3), FieldF64(name, F64(5)),
            FieldF64(name, F64NaN), FieldBool(name, 1), FieldStr(name, TextOf(1)),
            FieldI128(name, 7), FieldDebug(name, <<"d">>)} : name \in VisitNames}

VisitFieldLists == SeqsUpTo(VisitFieldInputs, MaxFields)

VisitConfigs == {[TraceonDefault EXCEPT !.json = j] : j \in BOOLEAN}

NewSpanVisit ==
    /\ Running
    /\ Len(spans) < MaxFmtSpans
    /\ \E attrs \in VisitFieldLists :
        on_new_span(SpanNameOf(Len(spans) + 1), LookupCurrent, attrs)

RecordVisit ==
    /\ Running
    /\ \E id \in SpanIds, values \in VisitFieldLists \ {<<>>} : on_record(id, values)

InitVisit == cfg \in VisitConfigs /\ InitRest

NextVisit == NewSpanVisit \/ RecordVisit \/ EnterSpan \/ Event

SpecVisit == InitVisit /\ [][NextVisit]_vars

(***************************************************************************)
(* SpecJoin: one span created with a field and given a field again by      *)
(* Span::record, under every join policy, and events outside every span    *)
(* whose call site names one field twice (event!(a = .., a = ..)).         *)
(***************************************************************************)
JoinConfigs ==
    {[TraceonDefault EXCEPT !.json = TRUE, !.join_fields = jf, !.span_format = sf] :
        jf \in {JoinFieldsOverwrite, JoinFieldsAll(SepField),
                JoinFieldsSome(SepField, {KeyA}), JoinFieldsSome(SepField, {KeyB})},
        sf \in {SpanFormatNone, SpanFormatJoin(SepSpan)}}

\* the fields of an event that names a field twice
TwiceInputs ==
    {FieldStr(KeyA, TextEvent), FieldStr(KeyA, TextOf(1)), FieldI64(KeyA, 2),
     FieldStr(LitSpanLower, TextEvent), FieldStr(LitSpanLower, TextOf(1))}

TwiceFieldLists == {<<f, g>> : f \in TwiceInputs, g \in TwiceInputs}

TwiceEvents ==
    [level : EventLevels, fields : {q \in TwiceFieldLists : q[1].name = q[2].name},
     module_path : {<<"m">>}, file : {<<"f">>}, line : {7}]

NewSpanJoin ==
    /\ Running
    /\ Len(spans) < MaxFmtSpans
    /\ \E attrs \in VisitFieldLists \ {<<>>} :
        on_new_span(SpanNameOf(Len(spans) + 1), LookupCurrent, attrs)

EventTwice ==
    /\ Running
    /\ stack = <<>>
    /\ \E ev \in TwiceEvents, time_string \in TimeStrings, fails \in BOOLEAN :
         \E eorder \in Orders(DOMAIN EventVisitor(cfg, ev).values) :
             on_event(ev, time_string, fails, eorder, <<>>)

InitJoin == cfg \in JoinConfigs /\ InitRest

NextJoin == NewSpanJoin \/ RecordVisit \/ EventTwice

SpecJoin == InitJoin /\ [][NextJoin]_vars

(***************************************************************************)
(* SpecPretty: pretty mode under every case, with and without module and   *)
(* file: one event in or outside a span whose field may be named           *)
(* `message`, have a capital for a name or hold a line feed.               *)
(***************************************************************************)
KeyCapitalB == <<"B">>

PrettySpanInputs ==
    {FieldStr(LitMessage, TextOf(1)), FieldStr(KeyA, TextSpecial), FieldI64(KeyCapitalB, 3)}

PrettyConfigs ==
    {[TraceonDefault EXCEPT !.case = cs, !.module = mo, !.file = fi] :
        cs \in Cases, mo \in BOOLEAN, fi \in BOOLEAN}

NewSpanPretty ==
    /\ Running
    /\ Len(spans) < MaxFmtSpans
    /\ \E attrs \in SeqsUpTo(PrettySpanInputs, MaxFields) :
        on_new_span(SpanNameOf(Len(spans) + 1), LookupCurrent, attrs)

InitPretty == cfg \in PrettyConfigs /\ InitRest

NextPretty == NewSpanPretty \/ EnterSpan \/ Event

SpecPretty == InitPretty /\ [][NextPretty]_vars

(***************************************************************************)
(* SpecInstall: on and try_on called on differently built Traceon values,  *)
(* and events emitted outside every span.  tracing's set_global_default    *)
(* sets the global dispatcher once: it returns an error when one is set.   *)
(* An event reaches the layer of the global default; with none set it      *)
(* reaches no layer.  The EnvFilter of on and try_on lets INFO events pass.*)
(***************************************************************************)
\* set_global_default(subscriber) for a subscriber built from Traceon c:
\* the state of the dispatcher and of the layer's configuration after it
SetGlobalDefault(c, fn, failed) ==
    IF global.set
    THEN /\ global' = [set |-> TRUE, outcome |-> failed, fn |-> fn, asked |-> c,
                       calls |-> global.calls + 1]
         /\ cfg' = cfg
    ELSE /\ global' = [set |-> TRUE, outcome |-> "ok", fn |-> fn, asked |-> c,
                       calls |-> global.calls + 1]
         /\ cfg' = c

\* try_on that installs its subscriber over the one already set
try_onReplacing(c) ==
    /\ global.calls < MaxInstalls
    /\ global' = [set |-> TRUE, outcome |-> "ok", fn |-> "try_on", asked |-> c,
                  calls |-> global.calls + 1]
    /\ cfg' = c
    /\ UNCHANGED <<spans, stack, sink, stderr, last, nrecords, nevents>>
    /\ UNCHANGED <<threadVars, call, handles>>

\* Traceon::try_on: the Result of set_global_default is returned
try_on(c) ==
    /\ global.calls < MaxInstalls
    /\ SetGlobalDefault(c, "try_on", "err")
    /\ UNCHANGED <<spans, stack, sink, stderr, last, nrecords, nevents>>
    /\ UNCHANGED <<threadVars, call, handles>>

\* Traceon::on: .expect() panics on the error of set_global_default
on(c) ==
    /\ global.calls < MaxInstalls
    /\ SetGlobalDefault(c, "on", "panic")
    /\ UNCHANGED <<spans, stack, sink, stderr, last, nrecords, nevents>>
    /\ UNCHANGED <<threadVars, call, handles>>

InstallConfigs ==
    {[TraceonDefault EXCEPT !.json = j, !.level = lf] :
        j \in BOOLEAN, lf \in {"Uppercase", "Number"}}

TryOn == Running /\ \E c \in InstallConfigs : try_on(c)

On == Running /\ \E c \in InstallConfigs : on(c)

EventToGlobal ==
    /\ Running
    /\ global.set
    /\ \E ev \in Events, time_string \in TimeStrings, fails \in BOOLEAN :
         \E eorder \in Orders(DOMAIN EventVisitor(cfg, ev).values) :
             on_event(ev, time_string, fails, eorder, <<>>)

InitInstall == cfg = TraceonDefault /\ InitRest

NextInstall == TryOn \/ On \/ EventToGlobal

SpecInstall == InitInstall /\ [][NextInstall]_vars

(***************************************************************************)
(* SpecLevel: one event of any level, with or without a message, under     *)
(* every level format and time format, in JSON mode and in pretty mode.    *)
(***************************************************************************)
Levels == {"TRACE", "DEBUG", "INFO", "WARN", "ERROR"}

LevelConfigs ==
    {[TraceonDefault EXCEPT !.json = j, !.level = lf, !.time = tf] :
        j \in BOOLEAN, lf \in LevelFormats, tf \in TimeFormats}

LevelEvents ==
    [level : Levels, fields : {<<>>, <<MessageField>>},
     module_path : {<<"m">>}, file : {<<"f">>}, line : {7}]

EventOfLevel ==
    /\ Running
    /\ \E ev \in LevelEvents, time_string \in TimeStrings, fails \in BOOLEAN :
         \E eorder \in Orders(DOMAIN EventVisitor(cfg, ev).values) :
             on_event(ev, time_string, fails, eorder, <<>>)

InitLevel == cfg \in LevelConfigs /\ InitRest

NextLevel == EventOfLevel

SpecLevel == InitLevel /\ [][NextLevel]_vars

(***************************************************************************)
(* SpecCase: the key-casing functions, called on every key of up to        *)
(* MaxKeyChars characters over a few letters, the underscore and the       *)
(* characters outside ASCII, and on the keys of the documentation.         *)
(***************************************************************************)
KeyChars == {"a", "b", "C", "D", "_", NonAsciiLower, NonAsciiUpper}

RECURSIVE KeysUpTo(_)
KeysUpTo(n) ==
    IF n = 0 THEN {<<>>}
    ELSE LET shorter == KeysUpTo(n - 1)
         IN  shorter \cup {Append(k, ch) : k \in {s \in shorter : Len(s) = n - 1},
                                           ch \in KeyChars}

KeyPascalCase == <<"P","a","s","c","a","l","C","a","s","e">>
KeySnakeCase == <<"s","n","a","k","e","_","c","a","s","e">>
KeyScreaming == <<"S","C","R","E","A","M","I","N","G","_",
                  "S","N","A","K","E","_","C","A","S","E">>

\* a key with capitals after lowercase letters
KeyCapitalsInside == <<"a","b","C","D">>

CaseKeys ==
    KeysUpTo(MaxKeyChars) \cup {KeyPascalCase, KeySnakeCase, KeyScreaming, KeyCapitalsInside}

\* the call is still to be made: its key is drawn
InitCase ==
    /\ cfg = TraceonDefault
    /\ spans = <<>> /\ stack = <<>> /\ sink = <<>> /\ stderr = 0 /\ last = LastNone
    /\ nrecords = 0 /\ nevents = 0
    /\ threads = [t \in ThreadIds |-> ThreadIdle]
    /\ writer_lock = 0 /\ acquired = <<>> /\ nemits = 0
    /\ call \in {[CallNone EXCEPT !.key = k] : k \in CaseKeys}
    /\ global = GlobalNone
    /\ handles = [t \in ThreadIds |-> HandleNone]

\* the call returned this string; the call panicked
Returned(fn, key, returned) ==
    [fn |-> fn, key |-> key, returned |-> returned, panicked |-> FALSE]
Panicked(fn, key) == [fn |-> fn, key |-> key, returned |-> <<>>, panicked |-> TRUE]

CallSnake ==
    /\ call' = Returned("snake", call.key, snake(call.key))
    /\ UNCHANGED <<layerVars, threadVars, global, handles>>

CallPascal ==
    /\ call' = Returned("pascal", call.key, pascal(call.key))
    /\ UNCHANGED <<layerVars, threadVars, global, handles>>

CallCamel ==
    /\ call' = IF CamelPanics(call.key) THEN Panicked("camel", call.key)
               ELSE Returned("camel", call.key, camel(call.key))
    /\ UNCHANGED <<layerVars, threadVars, global, handles>>

NextCase == CallSnake \/ CallPascal \/ CallCamel

SpecCase == InitCase /\ [][NextCase]_vars

(***************************************************************************)
(* The claims.                                                             *)
(***************************************************************************)
\* the names of the chain that ends in span id, joined by the separator
RECURSIVE JoinedChainName(_)
JoinedChainName(id) ==
    IF spans[id].parent = NoParent THEN spans[id].name
    ELSE JoinedChainName(spans[id].parent) \o cfg.span_format.chars \o spans[id].name

\* a span of the chain that ends in span id was given a field under the span key
RECURSIVE ChainGivenSpanKey(_)
ChainGivenSpanKey(id) ==
    \/ SpanKey(cfg) \in spans[id].given
    \/ spans[id].parent # NoParent /\ ChainGivenSpanKey(spans[id].parent)

\* the number of spans of the chain that ends in span id
RECURSIVE ChainLength(_)
ChainLength(id) ==
    IF spans[id].parent = NoParent THEN 1 ELSE 1 + ChainLength(spans[id].parent)

SpanNameAsJoined(id) ==
    LET values == spans[id].ext.st.values
    IN  CASE cfg.span_format.tag = "Join" ->
                /\ SpanKey(cfg) \in DOMAIN values
                /\ values[SpanKey(cfg)] = ValueFromStr(JoinedChainName(id))
          [] cfg.span_format.tag = "Overwrite" ->
                /\ SpanKey(cfg) \in DOMAIN values
                /\ values[SpanKey(cfg)] = ValueFromStr(spans[id].name)
          [] cfg.span_format.tag = "None" -> SpanKey(cfg) \notin DOMAIN values

StoredString(id, f) ==
    /\ f.kind = "str"
    /\ f.name \in DOMAIN spans[id].ext.st.values
    /\ spans[id].ext.st.values[f.name].t = "String"

\* f is a field the span-name policy governs
NamedSpan(f) == ToAsciiLowercase(f.name) = LitSpanLower

\* after on_record of string field f on span id, the value stored is the span's
\* own former value, the separator and the new value under All, the new value
\* under Overwrite
MergedOverOwn(id, f) ==
    LET own == spans[id].ext.st.values[f.name].s
        now == spans'[id].ext.st.values[f.name]
    IN  /\ cfg.join_fields.tag = "All" =>
              now = ValueFromStr(own \o cfg.join_fields.chars \o f.s)
        /\ cfg.join_fields.tag = "Overwrite" => now = ValueFromStr(f.s)

\* C5 as stated: on_record merges each new string value against the span's own
\* stored string for that field: A then B gives A||B under All("||") and B
\* under Overwrite.  It fails for a field named `span`.
C5_RecordMergesAnyField ==
    [][\A id \in SpanIds, f \in TreeFieldInputs(TextSpecial) :
          StoredString(id, f) /\ on_record(id, <<f>>) => MergedOverOwn(id, f)]_vars

\* C5 amended: on_record merges each new string value of a field not named
\* `span` against the span's own stored string for that field (not the
\* parent's): A then B gives A||B under All("||") and B under Overwrite.
C5_RecordMergesOverOwn ==
    [][\A id \in SpanIds, f \in TreeFieldInputs(TextSpecial) :
          StoredString(id, f) /\ ~NamedSpan(f) /\ on_record(id, <<f>>)
              => MergedOverOwn(id, f)]_vars

\* under All("||") a child that held x1||x2 over its parent's x1 was recorded y..
C5_Witness ==
    /\ cfg.join_fields = JoinFieldsAll(SepField)
    /\ \E id \in SpanIds :
        /\ spans[id].parent # NoParent
        /\ KeyA \in DOMAIN spans[spans[id].parent].ext.st.values
        /\ spans[spans[id].parent].ext.st.values[KeyA] = ValueFromStr(TextOf(1))
        /\ KeyA \in DOMAIN spans[id].ext.st.values
        /\ spans[id].ext.st.values[KeyA]
             = ValueFromStr(<<"x","1","|","|","x","2","|","|","y","\"","\n">>)

\* the span created next and its name
NextId == Len(spans) + 1

\* after on_new_span of a child of `parent` declaring string field f, the value
\* stored is the parent's, the separator and the child's if the field is
\* listed, the child's otherwise
JoinedIfListed(parent, f) ==
    LET inherited == spans[parent].ext.st.values[f.name].s
        now == spans'[NextId].ext.st.values[f.name]
    IN  now = IF f.name \in cfg.join_fields.fields
              THEN ValueFromStr(inherited \o cfg.join_fields.chars \o f.s)
              ELSE ValueFromStr(f.s)

\* C6 as stated: under Some(sep, names) a child declaring a string field that
\* the inherited storage holds stores parent+sep+child if the name is listed,
\* the child's value otherwise.  It fails for a field named `span`.
C6_SomeJoinsAnyListed ==
    [][\A parent \in SpanIds, f \in TreeFieldInputs(TextOf(NextId)) :
          /\ cfg.join_fields.tag = "Some"
          /\ StoredString(parent, f)
          /\ on_new_span(SpanNameOf(NextId), parent, <<f>>)
          => JoinedIfListed(parent, f)]_vars

\* C6 amended: under Some(sep, names) a child declaring a string field not
\* named `span` that the inherited storage holds stores parent+sep+child if
\* the name is listed, the child's value otherwise.
C6_SomeJoinsListed ==
    [][\A parent \in SpanIds, f \in TreeFieldInputs(TextOf(NextId)) :
          /\ cfg.join_fields.tag = "Some"
          /\ StoredString(parent, f)
          /\ ~NamedSpan(f)
          /\ on_new_span(SpanNameOf(NextId), parent, <<f>>)
          => JoinedIfListed(parent, f)]_vars

\* under Some("||", {b}): one child joined its b to the parent's, another
\* replaced the a it inherited
C6_Witness ==
    /\ cfg.join_fields = JoinFieldsSome(SepField, {KeyB})
    /\ \E c, d \in SpanIds :
        /\ spans[c].parent # NoParent /\ spans[d].parent # NoParent
        /\ KeyB \in DOMAIN spans[c].ext.st.values
        /\ spans[c].ext.st.values[KeyB]
             = ValueFromStr(TextOf(spans[c].parent) \o SepField \o TextOf(c))
        /\ KeyA \in DOMAIN spans[d].ext.st.values
        /\ KeyA \in DOMAIN spans[spans[d].parent].ext.st.values
        /\ spans[spans[d].parent].ext.st.values[KeyA] = ValueFromStr(TextSpecial)
        /\ spans[d].ext.st.values[KeyA] = ValueFromStr(TextOf(d))

\* the record has an entry with this key and this value
RecordHas(rec, key, value) == \E i \in 1..Len(rec) : rec[i] = Entry(key, value)

\* the number of entries the record has under this key
KeyCount(rec, key) == Cardinality({i \in 1..Len(rec) : rec[i].key = key})

\* the step writes the JSON record of an event emitted inside a span
WritesJsonInSpan == nevents' # nevents /\ cfg.json /\ stack # <<>>

\* the storage of the span the thread is in
CurrentValues == spans[stack[Len(stack)]].ext.st.values

\* the storage of the new child holds every key of the parent's storage, with
\* the parent's value where the child declares nothing under it, and every
\* field the child declares
InheritsAndDeclares(parent, attrs) ==
    LET held == spans[parent].ext.st.values
        now == spans'[NextId].ext.st.values
        declared == {attrs[i].name : i \in 1..Len(attrs)}
    IN  /\ \A k \in DOMAIN held :
              /\ k \in DOMAIN now
              /\ k \notin declared \cup {LitSpanLower} => now[k] = held[k]
        /\ declared \subseteq DOMAIN now
        /\ attrs # <<>> /\ attrs[Len(attrs)].kind = "i64"
              => now[attrs[Len(attrs)].name] = ValueFromInt(attrs[Len(attrs)].n)

\* C2: right after on_new_span of a span with a parent, its storage holds
\* every field the parent's storage held and every field the span declares;
\* and the record of an event emitted inside a span has every field of that
\* span's storage (so a and b and the joined span name for b=3 inside a=2).
C2_ChildHoldsParentsAndOwn ==
    [][/\ Len(spans') # Len(spans) =>
            \A parent \in SpanIds, attrs \in SpanFieldLists(TextOf(NextId)) :
                on_new_span(SpanNameOf(NextId), parent, attrs)
                    => InheritsAndDeclares(parent, attrs)
       /\ WritesJsonInSpan =>
            \A k \in DOMAIN CurrentValues : RecordHas(last'.entries, k, CurrentValues[k])]_vars

\* the record of an event in `in` (b=3) inside `out` (a=2) has a, b and out::in
C2_Witness ==
    /\ last.written /\ cfg.json
    /\ last.cur # NoParent /\ spans[last.cur].parent # NoParent
    /\ cfg.span_format = SpanFormatJoin(SepSpan)
    /\ RecordHas(last.entries, KeyA, ValueFromInt(2))
    /\ RecordHas(last.entries, KeyB, ValueFromInt(3))
    /\ RecordHas(last.entries, LitSpanLower, ValueFromStr(<<"o","u","t",":",":","i","n">>))

\* span c is a descendant of span a
RECURSIVE Descends(_, _)
Descends(c, a) ==
    /\ spans[c].parent # NoParent
    /\ (spans[c].parent = a \/ Descends(spans[c].parent, a))

\* the entries the record ends with are the fields of the current span's storage
EndsWithCurrentStorage(rec) ==
    LET n == Cardinality(DOMAIN CurrentValues)
    IN  /\ Len(rec) >= n
        /\ \A i \in (Len(rec) - n + 1)..Len(rec) :
              /\ rec[i].key \in DOMAIN CurrentValues
              /\ rec[i].value = CurrentValues[rec[i].key]

\* C4: an on_record on a span leaves the storage of every span created
\* below it unchanged, and the record of an event emitted in a span shows the
\* values of that span's own storage, not what its parent was given later.
C4_ChildIsSnapshot ==
    [][/\ nrecords' # nrecords =>
            \A id, c \in SpanIds :
                spans'[id] # spans[id] /\ Descends(c, id) => spans'[c].ext = spans[c].ext
       /\ WritesJsonInSpan => EndsWithCurrentStorage(last'.entries)]_vars

\* the parent was recorded y.. after the child took x1, and the record of an
\* event in the child shows x1
C4_Witness ==
    /\ last.written /\ cfg.json /\ last.cur # NoParent
    /\ spans[last.cur].parent # NoParent
    /\ cfg.join_fields = JoinFieldsOverwrite
    /\ KeyA \in DOMAIN spans[spans[last.cur].parent].ext.st.values
    /\ spans[spans[last.cur].parent].ext.st.values[KeyA] = ValueFromStr(TextSpecial)
    /\ KeyA \notin spans[last.cur].given
    /\ RecordHas(last.entries, KeyA, ValueFromStr(TextOf(1)))
    /\ ~RecordHas(last.entries, KeyA, ValueFromStr(TextSpecial))

\* C7: when an event field and a field of the current span's storage have
\* the same key (the span-name key excepted), the record has that key exactly
\* once, with the event's value.  The code writes both entries.
C7_CollidingKeyOnce ==
    [][WritesJsonInSpan =>
          LET own == EventVisitor(cfg, last'.ev).values
          IN  \A k \in (DOMAIN own \cap DOMAIN CurrentValues) \ {LitSpanLower} :
                  /\ KeyCount(last'.entries, k) = 1
                  /\ RecordHas(last'.entries, k, own[k])]_vars

\* C10: an on_event whose serialize returns an error writes nothing to the
\* sink and leaves every span storage unchanged; an event emitted after it
\* and serialized adds one whole record, and nothing else, to the sink.
C10_DroppedEventChangesNothing ==
    [][/\ stderr' # stderr => sink' = sink /\ spans' = spans /\ stack' = stack
       /\ stderr > 0 /\ nevents' # nevents =>
            /\ last'.written /\ last'.drops = stderr
            /\ Len(sink') > Len(sink)
            /\ SubSeq(sink', 1, Len(sink)) = sink
            /\ sink'[Len(sink')] = "\n"
            /\ cfg.json =>
                  SubSeq(sink', Len(sink) + 1, Len(sink') - 1) = JsonObject(last'.entries)]_vars

\* an event was written after one was dropped
C10_Witness ==
    /\ last.written /\ last.drops > 0 /\ stderr > 0
    /\ sink # <<>> /\ sink[Len(sink)] = "\n"

\* the record has an entry under this key
HasKey(rec, key) == \E i \in 1..Len(rec) : rec[i].key = key

\* the last record written is the JSON record of an event that carries a
\* message and was emitted inside a span, under the default level, time and
\* span settings
MessageInSpanUnderDefaults ==
    /\ last.written /\ cfg.json
    /\ last.cur # NoParent
    /\ \E i \in 1..Len(last.ev.fields) : last.ev.fields[i].name = LitMessage
    /\ cfg.level = TraceonDefault.level
    /\ cfg.time = TraceonDefault.time
    /\ cfg.span_format = TraceonDefault.span_format

HasMandatoryKeys ==
    /\ HasKey(last.entries, <<"s","p","a","n">>)
    /\ HasKey(last.entries, <<"l","e","v","e","l">>)
    /\ HasKey(last.entries, <<"t","i","m","e">>)
    /\ HasKey(last.entries, <<"m","e","s","s","a","g","e">>)

\* C3 as stated: in JSON mode with the default level, time and span settings,
\* the record of an event that carries a message and occurs inside a span has
\* the keys span, level, time and message.  It fails under Case::Pascal and
\* under a message key other than "message".
C3_MandatoryKeysUnderAnyCase == MessageInSpanUnderDefaults => HasMandatoryKeys

\* C3 amended: in JSON mode with the default level, time and span settings,
\* a case other than Pascal and the default message key, the record of an
\* event that carries a message and occurs inside a span has the keys span,
\* level, time and message.
C3_MandatoryKeys ==
    /\ MessageInSpanUnderDefaults
    /\ cfg.case # "Pascal"
    /\ cfg.message_key = TraceonDefault.message_key
    => HasMandatoryKeys

\* such a record was written under Case::Snake, with the module and the file
C3_Witness ==
    /\ MessageInSpanUnderDefaults
    /\ cfg.case = "Snake" /\ cfg.message_key = LitMessage
    /\ cfg.module /\ cfg.file
    /\ HasMandatoryKeys
    /\ RecordHas(last.entries, LitMessage, ValueFromStr(TextMessage))

\* the positions of the line feeds in a sequence of bytes
LineFeeds(bytes) == {i \in 1..Len(bytes) : bytes[i] = "\n"}

\* C8: in JSON mode the bytes written for one event hold exactly one line
\* feed, their last byte, whatever the configuration and the field values
\* (values with line feeds and quotes included).
C8_OneLinePerRecord ==
    [][cfg.json /\ sink' # sink =>
          LET written == SubSeq(sink', Len(sink) + 1, Len(sink'))
          IN  /\ SubSeq(sink', 1, Len(sink)) = sink
              /\ LineFeeds(written) = {Len(written)}]_vars

\* a record whose event field and span field hold a quote and a line feed,
\* under a message key with a line feed, was written as one line
C8_Witness ==
    /\ last.written /\ cfg.json
    /\ RecordHas(last.entries, KeyA, ValueFromStr(TextEvent))
    /\ RecordHas(last.entries, KeyA, ValueFromStr(TextSpecial))
    /\ HasKey(last.entries, <<"m","\n">>)
    /\ Cardinality(LineFeeds(sink)) = nevents
    /\ sink[Len(sink)] = "\n"

\* the buffers of the threads that acquired the writer lock and released it
Released == IF writer_lock = 0 THEN acquired ELSE SubSeq(acquired, 1, Len(acquired) - 1)

\* C9: with several threads emitting through the same writer, the sink is the
\* whole records of the threads that held the writer lock, in the order they
\* acquired it, followed by what the thread holding the lock has written of
\* its record so far: no bytes of two records are interleaved.
C9_RecordsNotInterleaved ==
    LET whole == Concat(Released)
    IN  /\ Len(sink) >= Len(whole)
        /\ SubSeq(sink, 1, Len(whole)) = whole
        /\ writer_lock = 0 => sink = whole
        /\ writer_lock # 0 =>
              LET record == acquired[Len(acquired)]
              IN  /\ Len(sink) - Len(whole) <= Len(record)
                  /\ SubSeq(sink, Len(whole) + 1, Len(sink))
                       = SubSeq(record, 1, Len(sink) - Len(whole))

\* one thread is in the middle of its write after the other's whole record,
\* and the other waits for the lock with its next record
C9_Witness ==
    /\ Len(acquired) = 2 /\ acquired[1] # acquired[2]
    /\ writer_lock # 0
    /\ Len(sink) > Len(acquired[1])
    /\ Len(sink) < Len(acquired[1]) + Len(acquired[2])
    /\ \E t \in ThreadIds : t # writer_lock /\ threads[t].pc = "buffered"

\* C12: snake("PascalCase") = "pascal_case", pascal("snake_case") =
\* "SnakeCase" and camel("snake_case") = "snakeCase".
C12_CasingExamples ==
    /\ call = Returned("snake", KeyPascalCase, call.returned)
          => call.returned = <<"p","a","s","c","a","l","_","c","a","s","e">>
    /\ call = Returned("pascal", KeySnakeCase, call.returned)
          => call.returned = <<"S","n","a","k","e","C","a","s","e">>
    /\ call = Returned("camel", KeySnakeCase, call.returned)
          => call.returned = <<"s","n","a","k","e","C","a","s","e">>
    /\ call.key = KeySnakeCase /\ call.fn = "camel" => ~call.panicked

\* camel was called on snake_case and returned snakeCase
C12_Witness ==
    /\ call.fn = "camel" /\ call.key = KeySnakeCase /\ ~call.panicked
    /\ call.returned = <<"s","n","a","k","e","C","a","s","e">>

\* C13: the casing functions are total: called on any key (the empty key, a
\* key of underscores only, a key whose first character is not ASCII) under
\* any case, they return a string.  camel panics on each of these three.
C13_CasingIsTotal == ~call.panicked

\* the bytes the step appends to the sink
Appended == SubSeq(sink', Len(sink) + 1, Len(sink'))

\* bytes holds the string sub from position i on
HoldsAt(bytes, i, sub) == i + Len(sub) - 1 <= Len(bytes) /\ SubSeq(bytes, i, i + Len(sub) - 1) = sub

\* bytes holds the string sub somewhere
Holds(bytes, sub) == \E i \in 1..Len(bytes) : HoldsAt(bytes, i, sub)

\* the number and the digits the level is to be emitted as
NumberOfLevel ==
    [l \in Levels |-> CASE l = "TRACE" -> 10 [] l = "DEBUG" -> 20 [] l = "INFO" -> 30
                        [] l = "WARN" -> 40 [] l = "ERROR" -> 50]
DigitsOfLevel ==
    [l \in Levels |-> CASE l = "TRACE" -> <<"1","0">> [] l = "DEBUG" -> <<"2","0">>
                        [] l = "INFO" -> <<"3","0">> [] l = "WARN" -> <<"4","0">>
                        [] l = "ERROR" -> <<"5","0">>]

\* C11: with LevelFormat::Number the level is emitted as 10 for TRACE, 20 for
\* DEBUG, 30 for INFO, 40 for WARN and 50 for ERROR: in JSON mode as the number
\* under the level key, in pretty mode as the first word of the message line
\* after the time; level_to_u16 of the legacy formatter gives the same number.
C11_LevelNumbers ==
    [][nevents' # nevents /\ cfg.level = "Number" =>
          LET level == last'.ev.level
              start == 5 + (IF cfg.time = "None" THEN 0 ELSE 3)
          IN  /\ cfg.json =>
                    /\ RecordHas(last'.entries, <<"l","e","v","e","l">>,
                                 ValueFromInt(NumberOfLevel[level]))
                    /\ Holds(Appended, <<"\"","l","e","v","e","l","\"",":">>
                                           \o DigitsOfLevel[level] \o <<",">>)
                         \/ Holds(Appended, <<"\"","l","e","v","e","l","\"",":">>
                                               \o DigitsOfLevel[level] \o <<"}">>)
              /\ ~cfg.json =>
                    HoldsAt(Appended, start + 1, DigitsOfLevel[level] \o <<" ">>)
              /\ level_to_u16(level) = NumberOfLevel[level]]_vars

\* a WARN event was written as "level":40 in JSON mode
C11_Witness ==
    /\ last.written /\ cfg.json /\ cfg.level = "Number"
    /\ last.ev.level = "WARN"
    /\ RecordHas(last.entries, <<"l","e","v","e","l">>, ValueFromInt(40))
    /\ Holds(sink, <<"\"","l","e","v","e","l","\"",":","4","0">>)

\* the key the message is to be emitted under: the message key, cased
CasedMessageKey ==
    LET first == IF cfg.case = "Pascal" THEN "M" ELSE "m"
    IN  CASE cfg.message_key = <<"m","e","s","s","a","g","e">> ->
                <<first,"e","s","s","a","g","e">>
          [] cfg.message_key = <<"m","s","g">> -> <<first,"s","g">>
          [] cfg.message_key = <<"m","\n">> -> <<first,"\n">>

\* the last record written is the JSON record of an event with a message
JsonRecordWithMessage ==
    /\ last.written /\ cfg.json
    /\ \E i \in 1..Len(last.ev.fields) : last.ev.fields[i].name = LitMessage

\* C15: in JSON mode the message of the event is emitted under the configured
\* message key, cased as every key is, and under "message" only if that is
\* the key so obtained: with message_key("msg") it is under "msg".
C15_MessageUnderMessageKey ==
    JsonRecordWithMessage =>
        /\ RecordHas(last.entries, CasedMessageKey, ValueFromStr(TextMessage))
        /\ KeyCount(last.entries, CasedMessageKey) = 1
        /\ CasedMessageKey # <<"m","e","s","s","a","g","e">>
              => ~HasKey(last.entries, <<"m","e","s","s","a","g","e">>)

\* with message_key("msg") and no casing the record has "msg":"hi" and no
\* "message"
C15_Witness ==
    /\ JsonRecordWithMessage
    /\ cfg.message_key = <<"m","s","g">> /\ cfg.case = "None"
    /\ RecordHas(last.entries, <<"m","s","g">>, ValueFromStr(<<"h","i">>))
    /\ ~HasKey(last.entries, <<"m","e","s","s","a","g","e">>)

\* C16: on or try_on called while a global default is set fails then and
\* there (try_on returns the error, on panics) and changes nothing: the
\* configuration installed first stays the layer's, and an event emitted
\* afterwards is written whole, in the mode of the first configuration.
C16_SecondInstallRejected ==
    [][/\ global'.calls # global.calls /\ global.set =>
            /\ global'.outcome = (IF global'.fn = "try_on" THEN "err" ELSE "panic")
            /\ global'.set
            /\ cfg' = cfg
            /\ <<spans', stack', sink', stderr', last', nevents'>>
                 = <<spans, stack, sink, stderr, last, nevents>>
       /\ global'.calls # global.calls /\ ~global.set =>
            global'.outcome = "ok" /\ global'.set /\ cfg' = global'.asked
       /\ nevents' # nevents /\ global.outcome \in {"err", "panic"} =>
            /\ cfg' = cfg /\ global' = global
            /\ last'.written
            /\ Appended # <<>> /\ Appended[Len(Appended)] = "\n"
            /\ cfg.json <=> Appended[1] = "{"]_vars

\* after a JSON configuration was installed and on was called on a pretty
\* one, an event was written as a JSON record
C16_Witness ==
    /\ global.set /\ global.calls = 2
    /\ global.fn = "on" /\ global.outcome = "panic"
    /\ ~global.asked.json /\ cfg.json
    /\ last.written /\ sink # <<>> /\ sink[1] = "{"

\* C20: in pretty mode the bytes written for one event end with exactly one
\* line feed, after the last field line or after the message line: no blank
\* line follows the record.
C20_PrettyEndsWithOneLineFeed ==
    [][~cfg.json /\ sink' # sink =>
          /\ Appended[Len(Appended)] = "\n"
          /\ Len(Appended) > 1 => Appended[Len(Appended) - 1] # "\n"]_vars

\* the value the storage holds for the field has the type and the value of
\* what was recorded
TypePreserved(f, v) ==
    CASE f.kind \in {"i64", "u64", "i128"} -> v.t = "Number" /\ v.n = f.n
      [] f.kind = "f64" -> v.t = "Float" /\ v.n = f.n
      [] f.kind = "bool" -> v.t = "Bool" /\ v.n = f.n
      [] f.kind \in {"str", "debug"} -> v.t = "String" /\ v.s = f.s

\* Span::record gives the field f its first value on span id
FirstRecorded(id, f) ==
    /\ nrecords' # nrecords
    /\ f.name = KeyA
    /\ f.name \notin DOMAIN spans[id].ext.st.values
    /\ on_record(id, <<f>>)

\* every entry of the current span's storage is in the JSON record written
\* by this step, as an entry and in the bytes
StorageEmitted ==
    \A k \in DOMAIN spans[LookupCurrent].ext.st.values :
        LET v == spans[LookupCurrent].ext.st.values[k]
        IN  /\ RecordHas(last'.entries, CasedKey(cfg, k), v)
            /\ Holds(Appended, JsonEntry(Entry(CasedKey(cfg, k), v)))
            /\ v = ValueFromF64(F64(5)) /\ k = KeyA =>
                   Holds(Appended, <<"\"", "a", "\"", ":", "0", ".", "5">>)

C18_MarkedNamesForEveryKind ==
    [][\A id \in SpanIds, f \in VisitFieldInputs :
          nrecords' # nrecords /\ on_record(id, <<f>>) =>
              LET before == DOMAIN spans[id].ext.st.values
                  after == DOMAIN spans'[id].ext.st.values
              IN  /\ StartsWith(f.name, LitLogDot) => after = before
                  /\ StartsWith(f.name, LitRawIdent) =>
                        /\ SubSeq(f.name, 3, Len(f.name)) \in after
                        /\ f.name \notin after]_vars

\* C17: assembling the event just written a second time, with the same span
\* storage and the same configuration and at the same clock reading, gives
\* the bytes just written, in JSON mode and in pretty mode.  The second
\* on_event records the event into a visitor of its own, a new HashMap that
\* may iterate in any order; the span's storage is the same map as before.
C17_SecondAssemblySameBytes ==
    [][nevents' # nevents =>
          LET cur == LookupCurrent
              hasCurrent == cur # NoParent
              currentExt == IF hasCurrent THEN spans[cur].ext ELSE ExtNone
              skeys == IF hasCurrent /\ currentExt.has
                       THEN DOMAIN currentExt.st.values ELSE {}
          IN  \A time_string \in TimeStrings :
              \A eorder \in Orders(DOMAIN EventVisitor(cfg, last'.ev).values) :
              \E sorder \in Orders(skeys) :
                  serialize(cfg, last'.ev, time_string, hasCurrent, currentExt,
                            eorder, sorder) \o <<"\n">> = Appended]_vars

\* the spans thread t can name in Span::record or can emit an event in
Reachable(t) == handles[t].held \cup {handles[t].stack[i] : i \in 1..Len(handles[t].stack)}

\* C19: a span that a thread can record on, or that is the current span of a
\* thread, has its storage: the expect of on_record ("Visitor not found on
\* 'record'") cannot fail, whatever the threads do in whatever order.
C19_TargetsHaveStorage ==
    \A t \in ThreadIds : \A id \in Reachable(t) : id \in SpanIds /\ spans[id].ext.has

\* one thread holds and has entered a span it recorded on, while the registry
\* holds a child span of it that another thread is creating and that has no
\* storage yet
C19_Witness ==
    \E t, u \in ThreadIds :
        /\ t # u
        /\ handles[t].stack # <<>> /\ nrecords = 1
        /\ handles[u].creating # 0
        /\ ~spans[handles[u].creating].ext.has
        /\ spans[handles[u].creating].parent = CurrentOf(t)

\* the join policy of the configuration applies to the field
JoinApplies(name) ==
    \/ cfg.join_fields.tag = "All"
    \/ cfg.join_fields.tag = "Some" /\ name \in cfg.join_fields.fields

\* the JSON value of what the field carries, by itself
ValueAlone(f) ==
    CASE f.kind \in {"i64", "u64"} -> ValueFromInt(f.n)
      [] f.kind = "f64" -> IF f.s = <<>> THEN [t |-> "Float", s |-> <<>>, n |-> f.n]
                           ELSE ValueNull
      [] f.kind = "bool" -> ValueFromBool(f.n)
      [] f.kind = "i128" -> ValueFromStr(<<Digits[f.n + 1]>>)
      [] f.kind \in {"str", "debug"} -> ValueFromStr(f.s)

\* Span::record gives the field f, which the storage of span id holds a value
\* of, a value under a join policy that applies to it
RecordedOverStored(id, f) ==
    /\ nrecords' # nrecords
    /\ f.name = KeyA
    /\ JoinApplies(f.name)
    /\ f.name \in DOMAIN spans[id].ext.st.values
    /\ on_record(id, <<f>>)

\* C21: under a join policy that applies to the field, a new value that is
\* not a string (i64, u64, f64, bool, or one stored as its Debug text)
\* replaces the stored value of the field, whatever that was: the storage
\* then holds the new value alone.
C21_NonStringReplaces ==
    [][\A id \in SpanIds, f \in VisitFieldInputs :
          RecordedOverStored(id, f) /\ f.kind # "str" =>
              spans'[id].ext.st.values[f.name] = ValueAlone(f)]_vars

\* under JoinFields::All a span created with the string field a was given
\* a = 2 by Span::record, and its storage holds the number 2
C21_Witness ==
    /\ cfg.join_fields.tag = "All"
    /\ Len(spans) = 1 /\ nrecords = 1 /\ spans[1].given = {KeyA}
    /\ spans[1].ext.st.values[KeyA] = ValueFromInt(2)

\* C22: under a join policy that applies to the field, a string recorded
\* over a stored value that is not a string (a number, a boolean) becomes the
\* stored value as it is, with no separator or other text added.
C22_StringOverNonStringReplaces ==
    [][\A id \in SpanIds, f \in VisitFieldInputs :
          /\ RecordedOverStored(id, f) /\ f.kind = "str"
          /\ spans[id].ext.st.values[f.name].t # "String"
          => spans'[id].ext.st.values[f.name] = ValueFromStr(f.s)]_vars

\* C23: an event whose call site gives one field two values is written with
\* the second value under that field's key, whatever JoinFields and
\* SpanFormat are.
C23_EventFieldTwiceOverwrites ==
    [][nevents' # nevents /\ Len(last'.ev.fields) = 2 =>
          LET f == last'.ev.fields[1]
              g == last'.ev.fields[2]
          IN  f.name = g.name => RecordHas(last'.entries, g.name, ValueAlone(g))]_vars

\* the lowercase and the uppercase form of a letter, other characters kept
LowercaseOf(ch) == IF ch = NonAsciiUpper THEN NonAsciiLower ELSE CharToAsciiLowercase(ch)
UppercaseOf(ch) == IF ch = NonAsciiLower THEN NonAsciiUpper ELSE CharToAsciiUppercase(ch)

\* the reference rule of snake case: an underscore before each uppercase
\* letter that is not first and follows neither an uppercase letter nor an
\* underscore, and every letter lowercased
SnakeRule(key) ==
    Concat([i \in 1..Len(key) |->
              (IF IsUppercase(key[i]) /\ i > 1 /\ ~IsUppercase(key[i - 1]) /\ key[i - 1] # "_"
               THEN <<"_">> ELSE <<>>)
              \o <<LowercaseOf(key[i])>>])

\* C24: snake(key) is what the reference rule gives; a key without uppercase
\* letters and underscores is returned as it is, and SCREAMING_SNAKE_CASE
\* becomes screaming_snake_case.
C24_SnakeIsTheRule ==
    call.fn = "snake" =>
        /\ ~call.panicked
        /\ call.returned = SnakeRule(call.key)
        /\ (\A i \in 1..Len(call.key) : ~IsUppercase(call.key[i]) /\ call.key[i] # "_")
              => call.returned = call.key
        /\ call.key = KeyScreaming =>
              call.returned = <<"s","c","r","e","a","m","i","n","g","_",
                                "s","n","a","k","e","_","c","a","s","e">>

\* the character at position i starts a segment of the key split on underscores
StartsSegment(key, i) == i = 1 \/ key[i - 1] = "_"

\* the reference rule of Pascal case: underscores dropped, the first letter of
\* every segment capitalized, and of every run of consecutive uppercase
\* letters (the capitalized first letter included) the first one kept and the
\* others lowercased
PascalRule(key) ==
    Concat([i \in 1..Len(key) |->
              IF key[i] = "_" THEN <<>>
              ELSE IF StartsSegment(key, i) THEN <<UppercaseOf(key[i])>>
              ELSE IF IsUppercase(key[i])
                      /\ (IsUppercase(key[i - 1])
                            \/ (IsLowercase(key[i - 1]) /\ StartsSegment(key, i - 1)))
                   THEN <<LowercaseOf(key[i])>>
              ELSE <<key[i]>>])

\* C25: pascal(key) is what the reference rule gives, and camel(key), when it
\* returns, is pascal(key) with its first character lowercased.
C25_PascalIsTheRule ==
    /\ call.fn = "pascal" => ~call.panicked /\ call.returned = PascalRule(call.key)
    /\ call.fn = "camel" /\ ~call.panicked =>
          call.returned = [i \in 1..Len(pascal(call.key)) |->
                                 IF i = 1 THEN LowercaseOf(pascal(call.key)[1])
                                 ELSE pascal(call.key)[i]]

(***************************************************************************)
(* The layout of a pretty record.                                          *)
(***************************************************************************)
\* the fields of the pretty record the step writes, other than the event's
\* message: module and file when enabled, the event's other fields and the
\* fields of the current span's storage, each with where it comes from, its
\* key after casing and its text
PrettyRecordFields ==
    LET ev == last'.ev
        evis == EventVisitor(cfg, ev).values
        cur == LookupCurrent
        svis == IF cur # NoParent /\ spans[cur].ext.has
                THEN spans[cur].ext.st.values ELSE EmptyMap
    IN  (IF cfg.module THEN {[from |-> "module", key |-> ModuleKey(cfg),
                              value |-> ev.module_path]} ELSE {})
        \cup (IF cfg.file THEN {[from |-> "file", key |-> FileKey(cfg),
                                 value |-> FileValue(ev)]} ELSE {})
        \cup {[from |-> "event", key |-> CasedKey(cfg, k),
               value |-> clean_json_value(evis[k])] : k \in (DOMAIN evis) \ {LitMessage}}
        \cup {[from |-> "span", key |-> CasedKey(cfg, k),
               value |-> clean_json_value(svis[k])] : k \in DOMAIN svis}

\* the bytes the step appends are the message line, then one line for each of
\* the fields in an ascending order of the keys (four spaces, the key, a
\* colon, spaces up to one column past the longest key, the text), then the
\* line feed that ends the record
LaidOut(fields) ==
    \E q \in Orders(fields), time_string \in TimeStrings :
        LET width == MaxKeyLen(q)
        IN  /\ \A i \in 1..(Len(q) - 1) : ~StrLess(q[i + 1].key, q[i].key)
            /\ Appended
                 = PrettyMessageLine(cfg, last'.ev, time_string)
                   \o Concat([i \in 1..Len(q) |->
                                 Spaces(4) \o q[i].key \o <<":">>
                                   \o Spaces(width - Len(q[i].key) + 1)
                                   \o q[i].value \o <<"\n">>])
                   \o <<"\n">>

KeysWritten == [i \in 1..Len(last.entries) |-> last.entries[i].key]

\* the structural keys the configuration enables, in the order time, level,
\* module, file
EnabledKeys ==
    (IF cfg.time # "None" THEN <<TimestampKey(cfg)>> ELSE <<>>)
      \o (IF cfg.level # "None" THEN <<LevelKey(cfg)>> ELSE <<>>)
      \o (IF cfg.module THEN <<ModuleKey(cfg)>> ELSE <<>>)
      \o (IF cfg.file THEN <<FileKey(cfg)>> ELSE <<>>)

Occurs(key, keys) == \E i \in DOMAIN keys : keys[i] = key

KeysSpelled ==
    IF cfg.case = "Pascal"
    THEN [level |-> <<"L","e","v","e","l">>, file |-> <<"F","i","l","e">>,
          module |-> <<"M","o","d","u","l","e">>, time |-> <<"T","i","m","e">>,
          span |-> <<"S","p","a","n">>]
    ELSE [level |-> <<"l","e","v","e","l">>, file |-> <<"f","i","l","e">>,
          module |-> <<"m","o","d","u","l","e">>, time |-> <<"t","i","m","e">>,
          span |-> <<"s","p","a","n">>]

\* the line of a pretty record that starts with the key
LineOf(key) == <<"\n">> \o Spaces(4) \o key \o <<":">>

C29_StorageChangedByRecordOnly ==
    [][/\ Len(spans') >= Len(spans)
       /\ \A id \in DOMAIN spans :
             spans'[id].ext # spans[id].ext =>
                /\ nrecords' = nrecords + 1
                /\ \E values \in SpanFieldLists(TextSpecial) \ {<<>>} :
                      spans'[id].ext.st = VisitAll(spans[id].ext.st, values)
                /\ \A other \in DOMAIN spans \ {id} : spans'[other].ext = spans[other].ext
       /\ Len(spans') > Len(spans) =>
             /\ Len(spans') = Len(spans) + 1
             /\ spans'[Len(spans')].ext.has
       /\ (stack' # stack \/ nevents' # nevents \/ sink' # sink \/ stderr' # stderr)
             => spans' = spans]_vars

\* an event written in a child span after a value was recorded on its parent:
\* the parent's storage holds b, the child's, attached before, does not
C29_Witness ==
    /\ last.written /\ last.cur = 2
    /\ Len(spans) = 2 /\ spans[2].parent = 1
    /\ KeyB \in DOMAIN spans[1].ext.st.values
    /\ KeyB \notin DOMAIN spans[2].ext.st.values

(***************************************************************************)
(* Concurrent on_record calls on one span.                                 *)
(***************************************************************************)
\* the threads whose on_record is on the span
RecordersOf(id) == {t \in ThreadIds : handles[t].turn # 0 /\ handles[t].target = id}

\* the storage of the span with the whole of the thread's values visited
AfterWhole(t) == VisitAll(handles[t].before, handles[t].values)

\* the storages of the span between on_record calls: the one each call found
\* and the one each call leaves, or the span's own when no call is on it
WholeStorages(id) ==
    IF RecordersOf(id) = {} THEN {spans[id].ext.st}
    ELSE {handles[t].before : t \in RecordersOf(id)} \cup {AfterWhole(t) : t \in RecordersOf(id)}

\* the on_record calls on one span took effect one after the other in the
\* order of their locks: each found the storage its predecessor left whole,
\* and the span holds what the last one leaves once it has returned
RecordsInLockOrder ==
    \A id \in SpanIds : \A t \in RecordersOf(id) :
        /\ \A u \in RecordersOf(id) :
              handles[u].turn > handles[t].turn => handles[u].before = AfterWhole(t)
        /\ (handles[t].locked = 0 /\ \A u \in RecordersOf(id) : handles[u].turn <= handles[t].turn)
              => spans[id].ext.st = AfterWhole(t)

\* under JoinFields::All the span holds both strings recorded for a field, the
\* one recorded under the first lock first
BothStringsKept ==
    \A id \in SpanIds : \A t, u \in RecordersOf(id) :
        handles[t].turn < handles[u].turn /\ handles[u].locked = 0 =>
            \A k \in {KeyA, KeyB} :
                spans[id].ext.st.values[k]
                    = ValueFromStr(Format3(TextOf(t), SepField, TextOf(u)))

\* an event in a span writes the entries of a whole storage of the span
EventSeesWhole ==
    nevents' # nevents /\ last'.cur # NoParent =>
        \E s \in WholeStorages(last'.cur), sorder \in Orders(DOMAIN spans[last'.cur].ext.st.values) :
            /\ DOMAIN s.values = DOMAIN spans[last'.cur].ext.st.values
            /\ \E time_string \in TimeStrings :
                 last'.entries = JsonRecord(cfg, last'.ev, time_string, TRUE, ExtSome(s),
                                            <<LitMessage>>, sorder)

\* a child span inherits a whole storage of its parent
ChildSeesWhole ==
    \A id \in DOMAIN spans :
        ~spans[id].ext.has /\ spans'[id].ext.has /\ spans[id].parent # NoParent =>
            \E s \in WholeStorages(spans[id].parent) :
                spans'[id].ext = AttachedExtensions(cfg, TRUE, ExtSome(s), spans[id].name, <<>>)

\* C30: on_record calls on one span from several threads take effect as if
\* run one after the other in the order they acquired the span's lock, with
\* both strings kept under JoinFields::All; an event in the span and the
\* creation of a child of the span read its storage as it was before or
\* after a whole on_record
C30_RecordsSerializedByLock ==
    /\ [](RecordsInLockOrder /\ BothStringsKept)
    /\ [][EventSeesWhole /\ ChildSeesWhole]_vars

\* both threads recorded on span 1, one after the other, a child of the span
\* was created and an event was written in the span
C30_Witness ==
    /\ RecordersOf(1) = ThreadIds
    /\ \A t \in ThreadIds : handles[t].locked = 0
    /\ spans[1].ext.st.values[KeyA] = ValueFromStr(Format3(TextOf(2), SepField, TextOf(1)))
    /\ Len(spans) = 2 /\ spans[2].parent = 1 /\ spans[2].ext.has
    /\ KeyA \in DOMAIN spans[2].ext.st.values
    /\ last.written /\ last.cur = 1

(***************************************************************************)
(* What on_event leaves alone.                                             *)
(***************************************************************************)
\* C31: an on_event step, whether the record is written or the event is
\* dropped on a serialization error, leaves the storage of every span as it
\* was, also when the event has a field the current span's storage holds
C31_EventLeavesStorage ==
    [][nevents' # nevents \/ stderr' # stderr \/ sink' # sink \/ last' # last
          => /\ Len(spans') = Len(spans)
             /\ \A id \in DOMAIN spans : spans'[id].ext = spans[id].ext]_vars

\* after one event dropped and one written in a span, the written one with a
\* field a of its own, the span's storage holds another value for a
C31_Witness ==
    /\ last.written /\ last.drops = 1 /\ last.cur # NoParent
    /\ \E i \in DOMAIN last.ev.fields :
          /\ last.ev.fields[i].name = KeyA
          /\ KeyA \in DOMAIN spans[last.cur].ext.st.values
          /\ spans[last.cur].ext.st.values[KeyA] # ValueAlone(last.ev.fields[i])

(***************************************************************************)
(* What on_new_span and on_record leave alone.                             *)
(***************************************************************************)
\* C32: an on_new_span step changes the storage of no span created before,
\* the new span's parent included; an on_record step changes the storage of
\* the span it is called for and of no other, be it the span's parent, a
\* sibling or a descendant
C32_OnlyOwnStorageModified ==
    [][/\ Len(spans') > Len(spans) =>
             \A id \in DOMAIN spans : spans'[id] = spans[id]
       /\ nrecords' # nrecords =>
             \E s \in DOMAIN spans :
                /\ spans'[s].ext # spans[s].ext
                     => \E values \in TreeFieldLists(TextSpecial) \ {<<>>} :
                           spans'[s].ext.st = VisitAll(spans[s].ext.st, values)
                /\ \A id \in DOMAIN spans \ {s} : spans'[id] = spans[id]]_vars

\* a root span with two children; a value was recorded on the first child after
\* its creation, and neither the root nor the sibling holds b
C32_Witness ==
    /\ Len(spans) = 3 /\ spans[2].parent = 1 /\ spans[3].parent = 1
    /\ nrecords = 1
    /\ spans[2].given = {KeyA, KeyB}
    /\ KeyB \in DOMAIN spans[2].ext.st.values
    /\ KeyB \notin DOMAIN spans[1].ext.st.values
    /\ KeyB \notin DOMAIN spans[3].ext.st.values

\* a root, its child and the child's child; a value was recorded on the child
\* after the grandchild was created, which does not hold it
C32_WitnessDescendant ==
    /\ Len(spans) = 3 /\ spans[2].parent = 1 /\ spans[3].parent = 2
    /\ nrecords = 1
    /\ KeyB \in DOMAIN spans[2].ext.st.values
    /\ KeyB \notin DOMAIN spans[1].ext.st.values
    /\ KeyB \notin DOMAIN spans[3].ext.st.values

(***************************************************************************)
(* A sink that fails.                                                      *)
(***************************************************************************)
\* C33: the on_event whose write fails panics holding the writer lock, which
\* is poisoned from then on; every on_event that comes to acquire the lock
\* afterwards panics, and nothing more is written to the sink
C33_FailedWritePoisonsWriter ==
    [][/\ \A t \in ThreadIds :
             threads[t].pc = "writing" /\ threads'[t].pc = "panicked"
                => writer_lock = t /\ writer_lock' = Poisoned
       /\ writer_lock = Poisoned =>
             /\ writer_lock' = Poisoned
             /\ sink' = sink
             /\ acquired' = acquired
             /\ \A t \in ThreadIds :
                   threads[t].pc = "buffered" /\ threads'[t].pc # "buffered"
                      => threads'[t].pc = "panicked"
             /\ \A t \in ThreadIds : threads'[t].pc # "writing"]_vars

\* a write failed after part of a record was written; later both threads came
\* to the lock with a record and panicked
C33_Witness ==
    /\ writer_lock = Poisoned
    /\ nemits = MaxEmits
    /\ sink # <<>>
    /\ \A t \in ThreadIds : threads[t].pc = "panicked"

(***************************************************************************)
(* The locks a thread holds.                                               *)
(***************************************************************************)
\* the number of locks thread t holds: the write lock of a span's extensions,
\* the read lock of a span's extensions, the writer's mutex
HeldCount(t) ==
    (IF handles[t].locked # 0 THEN 1 ELSE 0)
      + (IF handles[t].reading # 0 THEN 1 ELSE 0)
      + (IF writer_lock = t THEN 1 ELSE 0)

\* thread t is about to acquire a lock: the parent's or the new span's in
\* on_new_span, the writer's in on_event
Acquiring(t) ==
    \/ handles[t].pc = "idle" /\ handles[t].creating # 0
          /\ spans[handles[t].creating].parent # NoParent
    \/ handles[t].pc = "built"
    \/ threads[t].pc = "buffered"

\* thread t can take its next step
CanStep(t) ==
    \/ handles[t].pc = "idle" /\ handles[t].creating # 0
          /\ (spans[handles[t].creating].parent # NoParent
                => /\ ExtensionsFree(spans[handles[t].creating].parent)
                   /\ Unread(spans[handles[t].creating].parent))
    \/ handles[t].pc \in {"cloned", "attaching", "serializing"}
    \/ handles[t].pc = "built"
          /\ ExtensionsFree(handles[t].creating) /\ Unread(handles[t].creating)
    \/ handles[t].pc = "idle" /\ handles[t].locked # 0
    \/ threads[t].pc = "buffered" /\ writer_lock = 0
    \/ threads[t].pc = "writing"

\* C34: no thread holds two locks at once, and a thread about to acquire a
\* lock holds none: on_new_span has released the parent's storage before it
\* locks the new span's, on_event the current span's storage before it locks
\* the writer; whenever a thread is inside a callback, some thread inside a
\* callback can take its next step
C34_OneLockAtATime ==
    /\ \A t \in ThreadIds :
          /\ HeldCount(t) <= 1
          /\ Acquiring(t) => HeldCount(t) = 0
    /\ (\E t \in ThreadIds : ~Idle(t)) => \E t \in ThreadIds : ~Idle(t) /\ CanStep(t)

\* a thread writes its record of an event in span 1 under the writer's lock
\* while another holds the lock of that span's storage in on_record and a
\* child of the span exists
C34_Witness ==
    \E t, u \in ThreadIds :
        /\ writer_lock = t /\ CurrentOf(t) = 1
        /\ handles[u].locked = 1 /\ handles[u].pending # <<>>
        /\ Len(spans) = 2 /\ spans[2].parent = 1 /\ spans[2].ext.has

(***************************************************************************)
(* What writes to the sink.                                                *)
(***************************************************************************)
\* the number of times the character occurs in the bytes
CountIn(ch, bytes) == Cardinality({i \in 1..Len(bytes) : bytes[i] = ch})

SpanPartWritten(id) ==
    LET n == Cardinality(DOMAIN spans[id].ext.st.values)
    IN  {last'.entries[i] : i \in (Len(last'.entries) - n + 1)..Len(last'.entries)}

\* C36: an event emitted in the outer span while the span nested in it exists
\* and is not entered, so after it was exited too, has the entries of the
\* outer span's storage and no other span entry: the span name is the outer
\* span's alone and a field only the inner span has is absent
C36_OuterRecordAfterInnerExit ==
    [][nevents' # nevents /\ Len(spans) = 2 /\ spans[2].parent = 1 /\ stack = <<1>> =>
          LET outer == spans[1].ext.st.values
              evis == EventVisitor(cfg, last'.ev).values
          IN  /\ Len(last'.entries)
                   = Len(EnabledKeys) + Cardinality(DOMAIN evis) + Cardinality(DOMAIN outer)
              /\ SpanPartWritten(1) = {Entry(k, outer[k]) : k \in DOMAIN outer}
              /\ cfg.span_format.tag # "None" =>
                    /\ Entry(LitSpanLower, ValueFromStr(SpanNameOf(1))) \in SpanPartWritten(1)
                    /\ ~Holds(Appended, SpanNameOf(2))
              /\ KeyB \notin DOMAIN evis =>
                    \A i \in DOMAIN last'.entries : last'.entries[i].key # KeyB
              /\ \A i \in DOMAIN last'.entries :
                    last'.entries[i].value # ValueFromStr(TextOf(2))]_vars

\* the sink holds a record written in the inner span, with b = 3 and the
\* joined span name, and after it the latest record, written in the outer
\* span, which the thread can only be back in by having exited the inner one
C36_Witness ==
    /\ last.written /\ last.cur = 1 /\ stack = <<1>>
    /\ Len(spans) = 2 /\ spans[2].parent = 1
    /\ cfg.span_format.tag = "Join"
    /\ nevents = 2
    /\ Holds(sink, <<"\"", "b", "\"", ":", "3", "}", "\n", "{">>)
    /\ \A i \in DOMAIN last.entries : last.entries[i].key # KeyB

(***************************************************************************)
(* An event outside every span.                                            *)
(***************************************************************************)
\* C37: the record of an event emitted while no span is entered has the
\* enabled structural keys and the event's own fields and nothing else: no
\* span name and no field of a span's storage, also when spans exist
C37_EventOutsideSpans ==
    [][nevents' # nevents /\ stack = <<>> =>
          LET evis == EventVisitor(cfg, last'.ev).values
              ns == Len(EnabledKeys)
              keys == [i \in 1..Len(last'.entries) |-> last'.entries[i].key]
          IN  /\ last'.cur = NoParent
              /\ cfg.json =>
                    /\ Len(keys) = ns + Cardinality(DOMAIN evis)
                    /\ SubSeq(keys, 1, ns) = EnabledKeys
                    /\ \A i \in (ns + 1)..Len(keys) :
                          \E k \in DOMAIN evis :
                              last'.entries[i]
                                = Entry(CasedKey(cfg, IF k = LitMessage
                                                      THEN cfg.message_key ELSE k),
                                        evis[k])
                    /\ LitSpanLower \notin DOMAIN evis => ~Occurs(KeysSpelled.span, keys)
                    /\ Appended = JsonObject(last'.entries) \o <<"\n">>
              /\ ~cfg.json =>
                    /\ LaidOut({f \in PrettyRecordFields :
                                  /\ f.from # "span"
                                  /\ \/ f.from \in {"module", "file"}
                                     \/ ToAsciiLowercase(f.key) # LitMessage})
                    /\ LitSpanLower \notin DOMAIN evis
                          => ~Holds(Appended, LineOf(KeysSpelled.span))]_vars

\* a JSON record with the four structural keys, the message and a field a,
\* written outside the span that exists, whose storage holds its name and a
\* field a of its own
C37_Witness ==
    /\ last.written /\ stack = <<>> /\ cfg.json
    /\ Len(EnabledKeys) = 4 /\ Len(KeysWritten) = 6
    /\ Len(spans) = 1 /\ cfg.span_format.tag = "Join"
    /\ KeyA \in DOMAIN spans[1].ext.st.values
    /\ spans[1].ext.st.values[KeyA] = ValueFromStr(TextSpecial)

(***************************************************************************)
(* A field named span.                                                     *)
(***************************************************************************)
\* the text of a stored value
TextOfValue(v) == IF v.t = "String" THEN v.s ELSE IntToString(v.n)

\* C38: a string recorded for a field named span, whatever the case of its
\* letters, over a value the storage holds under that name becomes old, the
\* separator and new under SpanFormat::Join and the new string alone under
\* SpanFormat::Overwrite and SpanFormat::None, whatever JoinFields is
C38_SpanFieldMergedBySpanPolicy ==
    [][\A id \in SpanIds, f \in SpanNamedInputs :
          /\ nrecords' # nrecords
          /\ f.kind = "str"
          /\ f.name \in DOMAIN spans[id].ext.st.values
          /\ on_record(id, <<f>>)
          => spans'[id].ext.st.values[f.name]
               = IF cfg.span_format.tag = "Join"
                 THEN ValueFromStr(Format3(TextOfValue(spans[id].ext.st.values[f.name]),
                                           cfg.span_format.chars, f.s))
                 ELSE ValueFromStr(f.s)]_vars
====
